---- MODULE Spec2Model ----
(***************************************************************************)
(* Model of the well-plate doser: the two dosing orchestrators             *)
(* (dosingExecuter.run_dosing driven by dosingExecuter.main, and           *)
(* dosing_run.DosingExecutor.run), the serial command channel and the pump *)
(* helpers of hardwareInterfaces.                                          *)
(*                                                                         *)
(* Units: lengths are in 1/100 mm, volumes in 1/10000 uL, delays in 1/10 s,*)
(* so that every number of the source is an integer (0.0344 uL = 344).     *)
(***************************************************************************)
EXTENDS Integers, Sequences, FiniteSets, TLC

VARIABLES
  variant,          \* which orchestrator runs: "run_dosing" | "DosingExecutor" | "pump"
  plan,             \* the dosing plan handed to the orchestrator
  reservoirs,       \* labels that have a reservoir (FLUID_RESERVOIRS / source_positions keys)
  sources_order,    \* DosingExecutor.run argument: [given |-> BOOLEAN, seq |-> labels]
  overdraw_uL,      \* run_dosing argument
  setup,            \* DosingExecutor configuration and driver state at entry
  pumpConnected,    \* pump.connected
  moverConnected,   \* mover.connected
  ser,              \* the serial transport of main: "unopened" | "open" | "closed"
  pc,               \* control location of the orchestrator
  order,            \* the fluid-processing order the loop iterates over
  by_fluid,         \* grouping result: ordered dict as a sequence of [lab, wells]
  fi,               \* index of the current fluid in order
  wi,               \* index of the current well in the current fluid's list
  todo,             \* hardware calls of the current step still to be issued
  phase,            \* command(): "idle" | "wait" (instruction written, no ok read yet)
  line,             \* command(): the last raw line read since the last write
  calls,            \* every hardware call issued so far, tagged with its cycle number
  pumpCmds,         \* what the pump driver was commanded to do
  cycles,           \* the (fluid, well, volume) of every per-well cycle started so far
  result,           \* "running" | "returned" | "complete" | the exception raised
  missing           \* the list reported by validate_reservoirs

vars == <<variant, plan, reservoirs, sources_order, overdraw_uL, setup, pumpConnected,
          moverConnected, ser, pc, order, by_fluid, fi, wi, todo, phase, line, calls,
          pumpCmds, cycles, result, missing>>

----------------------------------------------------------------------------
(* Units *)

uL(n) == n * 10000
mm(n) == n * 100

----------------------------------------------------------------------------
(* Labels and their order (Python compares the label strings) *)

Labels == {"A", "B", "C"}
LabelOrder == <<"A", "B", "C">>
Rank(l) == CHOOSE i \in 1..Len(LabelOrder) : LabelOrder[i] = l

\* A volumes_uL dict: a sequence of [lab, v] in key insertion order.
Item(l, x) == [lab |-> l, v |-> x]
VolMaps ==
  { << Item("A", uL(10)), Item("B", 0), Item("C", uL(5)) >>,
    << Item("C", uL(4)), Item("B", uL(6)) >>,
    << Item("A", 0) >>,
    << Item("A", uL(300)), Item("C", uL(5)) >> }

WellPositions == { <<0, 0>>, <<0, 1>>, <<1, 0>> }

Entries == { [row |-> p[1], col |-> p[2], volumes_uL |-> m] : p \in WellPositions, m \in VolMaps }

\* Longest plan explored.
MaxPlanLen == 2

\* A Dosing Plan: no two entries share (row, col).
DistinctWells(s) ==
  \A i, j \in 1..Len(s) : i # j => <<s[i].row, s[i].col>> # <<s[j].row, s[j].col>>
\* The example plan of dosing_run.py's __main__: A1 {A:10, B:0, C:5}, A2 {A:5, B:2},
\* B1 {B:7}
ExamplePlan ==
  << [row |-> 0, col |-> 0,
      volumes_uL |-> << Item("A", uL(10)), Item("B", 0), Item("C", uL(5)) >>],
     [row |-> 0, col |-> 1, volumes_uL |-> << Item("A", uL(5)), Item("B", uL(2)) >>],
     [row |-> 1, col |-> 0, volumes_uL |-> << Item("B", uL(7)) >>] >>
Plans ==
  UNION { { s \in [1..n -> Entries] : DistinctWells(s) } : n \in 0..MaxPlanLen }
  \cup { ExamplePlan }

\* dict.get(label, default) on a volumes_uL dict
Get(m, l, default) ==
  IF \E i \in 1..Len(m) : m[i].lab = l
  THEN m[CHOOSE i \in 1..Len(m) : m[i].lab = l].v
  ELSE default
Keys(m) == { m[i].lab : i \in 1..Len(m) }
\* sum(volumes.values())
RECURSIVE SumVolumes(_)
SumVolumes(m) == IF m = << >> THEN 0 ELSE Head(m).v + SumVolumes(Tail(m))

----------------------------------------------------------------------------
(* Configuration tables of dosingExecuter.py *)

\* The planner's default maximum volume per well (200 uL).
max_well_volume == 2000000

TRAVEL_Z == 3000
DOSE_Z == 0
ASPIRATE_Z == 0
F_XY == 12000
F_Z == 9000
M203_Z == 1200

\* Plate presets the planner offers; each has an entry in PLATE_OFFSETS.
PlateNames == {"96-well (8x12)", "384-well (16x24)"}
PLATE_OFFSETS(name) ==
  IF name = "96-well (8x12)"
  THEN [a1_x |-> 6350, a1_y |-> 8150, pitch_x |-> 900, pitch_y |-> 900]
  ELSE [a1_x |-> 6350, a1_y |-> 8150, pitch_x |-> 450, pitch_y |-> 450]

\* Reservoir XY per label ("A" as configured, "B"/"C" as a user would add them).
FLUID_RESERVOIRS(lab) ==
  IF lab = "A" THEN <<3766, 19600>>
  ELSE IF lab = "B" THEN <<5766, 19600>>
  ELSE <<7766, 19600>>

\* resolve_plate_coords: every plate name that main() can pass is in PLATE_OFFSETS.
resolve_plate_coords(plate_meta) == PLATE_OFFSETS(plate_meta.name)

\* Faulty variant: the row is used for X and the column for Y.
well_to_xy_transposed(row, col, a1_x, a1_y, pitch_x, pitch_y) ==
  << a1_x + row * pitch_x, a1_y + col * pitch_y >>

well_to_xy(row, col, a1_x, a1_y, pitch_x, pitch_y) ==
  << a1_x + col * pitch_x, a1_y + row * pitch_y >>

----------------------------------------------------------------------------
(* Ordered dict fluid -> list, as a sequence of [lab, wells] *)

HasKey(d, l) == \E i \in 1..Len(d) : d[i].lab = l
Lookup(d, l) == d[CHOOSE i \in 1..Len(d) : d[i].lab = l].wells
DictKeys(d) == [i \in 1..Len(d) |-> d[i].lab]
\* d[l].append(w), creating the key at the end when it is new
AppendTo(d, l, w) ==
  IF HasKey(d, l)
  THEN [i \in 1..Len(d) |-> IF d[i].lab = l THEN [d[i] EXCEPT !.wells = Append(@, w)] ELSE d[i]]
  ELSE Append(d, [lab |-> l, wells |-> <<w>>])

\* list.sort(key=lambda e: (e["row"], e["col"])): a stable insertion sort
KeyLE(a, b) == a.row < b.row \/ (a.row = b.row /\ a.col <= b.col)
RECURSIVE InsertSorted(_, _)
InsertSorted(s, e) ==
  IF s = << >> THEN <<e>>
  ELSE IF KeyLE(s[Len(s)], e) THEN Append(s, e)
  ELSE Append(InsertSorted(SubSeq(s, 1, Len(s) - 1), e), s[Len(s)])
RECURSIVE SortRowMajor(_)
SortRowMajor(s) ==
  IF s = << >> THEN << >>
  ELSE InsertSorted(SortRowMajor(SubSeq(s, 1, Len(s) - 1)), s[Len(s)])
SortEach(d) == [i \in 1..Len(d) |-> [d[i] EXCEPT !.wells = SortRowMajor(@)]]

----------------------------------------------------------------------------
(* dosingExecuter.py: grouping and validation *)

\* The loop of group_plan_by_fluid over entries (i) and over vols.items() (j).
RECURSIVE GroupLoop(_, _, _, _)
GroupLoop(p, i, j, d) ==
  IF i > Len(p) THEN d
  ELSE IF j > Len(p[i].volumes_uL) THEN GroupLoop(p, i + 1, 1, d)
  ELSE LET it == p[i].volumes_uL[j]
           w == [row |-> p[i].row, col |-> p[i].col, volume_uL |-> it.v]
       IN GroupLoop(p, i, j + 1, IF it.v > 0 THEN AppendTo(d, it.lab, w) ELSE d)

\* Faulty variant: the volumes that are zero are grouped too.
RECURSIVE GroupLoopKeepingZeros(_, _, _, _)
GroupLoopKeepingZeros(p, i, j, d) ==
  IF i > Len(p) THEN d
  ELSE IF j > Len(p[i].volumes_uL) THEN GroupLoopKeepingZeros(p, i + 1, 1, d)
  ELSE LET it == p[i].volumes_uL[j]
           w == [row |-> p[i].row, col |-> p[i].col, volume_uL |-> it.v]
       IN GroupLoopKeepingZeros(p, i, j + 1, AppendTo(d, it.lab, w))
group_plan_by_fluid_keeping_zeros(p) == SortEach(GroupLoopKeepingZeros(p, 1, 1, << >>))

group_plan_by_fluid(p) == SortEach(GroupLoop(p, 1, 1, << >>))

\* Faulty variant: only the first missing label is reported.
validate_reservoirs_first_only(d, res) ==
  LET all == SelectSeq(DictKeys(d), LAMBDA l : l \notin res)
  IN IF all = << >> THEN << >> ELSE << all[1] >>

\* missing = [lab for lab in by_fluid.keys() if lab not in FLUID_RESERVOIRS]
validate_reservoirs(d, res) == SelectSeq(DictKeys(d), LAMBDA l : l \notin res)

----------------------------------------------------------------------------
(* dosing_run.py: DosingExecutor helpers *)

\* A decoded JSON value that is not an object stands in a plan as the record
\* [nondict |-> its text]; a volumes_uL value that is not an object stands as the
\* one-element sequence << [scalar |-> its value] >>.
IsDict(e) == "nondict" \notin DOMAIN e
IsMapping(m) == \A i \in 1..Len(m) : "lab" \in DOMAIN m[i]

\* _parse_plan keeps the entries that are dicts with the keys row, col and
\* volumes_uL, whatever their values; every entry of Plans carries the three keys.
HasKeys(e) == {"row", "col", "volumes_uL"} \subseteq DOMAIN e
parse_plan(p) == SelectSeq(p, LAMBDA e : IsDict(e) /\ HasKeys(e))
\* _parse_plan on a JSON string: text that does not decode gives the empty list
parse_plan_json(decodes, p) == IF decodes THEN parse_plan(p) ELSE << >>

RECURSIVE SortedLabels(_)
SortedLabels(S) ==
  IF S = {} THEN << >>
  ELSE LET m == CHOOSE x \in S : \A y \in S : Rank(x) <= Rank(y)
       IN <<m>> \o SortedLabels(S \ {m})

RECURSIVE FirstSeen(_, _, _, _)
FirstSeen(p, i, j, acc) ==
  IF i > Len(p) THEN acc
  ELSE IF j > Len(p[i].volumes_uL) THEN FirstSeen(p, i + 1, 1, acc)
  ELSE LET l == p[i].volumes_uL[j].lab
       IN FirstSeen(p, i, j + 1,
                    IF \E k \in 1..Len(acc) : acc[k] = l THEN acc ELSE Append(acc, l))

\* Faulty variant: the labels stay in the order of their first appearance.
infer_sources_order_unsorted(entries) == FirstSeen(entries, 1, 1, << >>)

\* _infer_sources_order: sorted(set of every key of every volumes_uL)
infer_sources_order(entries) ==
  SortedLabels(UNION { Keys(entries[i].volumes_uL) : i \in 1..Len(entries) })

RECURSIVE GroupSrcLoop(_, _, _, _)
GroupSrcLoop(p, i, j, d) ==
  IF i > Len(p) THEN d
  ELSE IF j > Len(p[i].volumes_uL) THEN GroupSrcLoop(p, i + 1, 1, d)
  ELSE LET it == p[i].volumes_uL[j]
       IN GroupSrcLoop(p, i, j + 1, IF it.v > 0 THEN AppendTo(d, it.lab, p[i]) ELSE d)

\* Faulty variant: each list stays in plan order.
group_wells_by_source_unsorted(entries) == GroupSrcLoop(entries, 1, 1, << >>)

\* Faulty variant: only the first well of each source is kept.
group_wells_by_source_first_only(entries) ==
  LET d == SortEach(GroupSrcLoop(entries, 1, 1, << >>))
  IN [i \in 1..Len(d) |-> [d[i] EXCEPT !.wells = << @[1] >>]]

\* _group_wells_by_source: by_src.setdefault(label, []).append(e) when float(v) > 0,
\* then every list sorted by (row, col)
group_wells_by_source(entries) == SortEach(GroupSrcLoop(entries, 1, 1, << >>))

\* _well_xy_mm
\* Faulty variant: the direction of the Y axis is ignored.
well_xy_mm_always_down(row, col, layout) ==
  << layout.a1_x_mm + col * layout.col_pitch_mm,
     layout.a1_y_mm + row * layout.row_pitch_mm >>

well_xy_mm(row, col, layout) ==
  LET dx == col * layout.col_pitch_mm
      dy == IF layout.y_positive_down THEN row * layout.row_pitch_mm
            ELSE -(row * layout.row_pitch_mm)
  IN << layout.a1_x_mm + dx, layout.a1_y_mm + dy >>

----------------------------------------------------------------------------
(* hardwareInterfaces.py: G-code helpers.  An instruction is a tuple; a G1 with *)
(* "{v:.2f}" carries v in 1/100 mm, which that format prints exactly.           *)

G1_Z(z, f) == <<"G1_Z", z, f>>
G1_XY(x, y, f) == <<"G1_XY", x, y, f>>
M400 == <<"M400">>

\* moveTo(ser, x, y, z, zlift, speed): lift, barrier, XY, barrier, final Z, barrier
moveTo(x, y, z, zlift, speed) ==
  << G1_Z(zlift, speed), M400, G1_XY(x, y, speed), M400, G1_Z(z, speed), M400 >>

\* Faulty variant: the descent is sent without its barrier.
dosePositioning_without_barrier(z, speed) == << G1_Z(z, speed) >>

\* dosePositioning(ser, z, speed)
dosePositioning(z, speed) == << G1_Z(z, speed), M400 >>

\* Faulty variant: the run starts without homing.
StartupCmds_without_homing ==
  << <<"G21">>, <<"G90">>, <<"M203_Z", M203_Z>>, G1_Z(TRAVEL_Z, F_Z), M400 >>

\* run_dosing lines 183-191: startup instructions, then the lift to TRAVEL_Z
StartupCmds ==
  << <<"G28">>, <<"G21">>, <<"G90">>, <<"M203_Z", M203_Z>>, G1_Z(TRAVEL_Z, F_Z), M400 >>

\* Raw response lines of the controller, as character sequences; << >> is a read
\* that timed out.
Lines ==
  { << >>,
    << "n", "o", "k", "\n" >>,
    << "o", "k", "\n" >>,
    << " ", "o", "k", " ", "T", "\r", "\n" >> }

Whitespace == {" ", "\n", "\r", "\t"}
RECURSIVE LStrip(_)
LStrip(l) == IF l # << >> /\ Head(l) \in Whitespace THEN LStrip(Tail(l)) ELSE l
RECURSIVE RStrip(_)
RStrip(l) ==
  IF l # << >> /\ l[Len(l)] \in Whitespace THEN RStrip(SubSeq(l, 1, Len(l) - 1)) ELSE l
\* str.strip()
Strip(l) == RStrip(LStrip(l))
\* str.startswith
StartsWith(l, prefix) == Len(l) >= Len(prefix) /\ SubSeq(l, 1, Len(prefix)) = prefix

\* Faulty variant: any non-empty line ends the wait.
IsAckAnyLine(raw) == Strip(raw) # << >>

\* command(): line = readline().decode().strip(); if line.startswith("ok"): break
IsAck(raw) == StartsWith(Strip(raw), <<"o", "k">>)

----------------------------------------------------------------------------
(* hardwareInterfaces.py: pump helpers *)

WithdrawCalOffset == 344
InfuseCalOffset == 344
DefaultFlowRate == 1
\* withdraw(pump, withdrawVol, ...) has two required positional parameters
WithdrawRequiredArgs == 2

\* Faulty variant: the offset grows with the number of earlier pump commands.
withdraw_compounding(cmds, withdrawVol, flowRate) ==
  cmds \o << <<"setwithdrawrate", flowRate>>,
             <<"withdrawDuration",
               (withdrawVol + (Len(cmds) \div 2 + 1) * WithdrawCalOffset) \div flowRate>> >>

\* withdraw(pump, withdrawVol, flowRate): the commands the pump receives
withdraw(cmds, withdrawVol, flowRate) ==
  cmds \o << <<"setwithdrawrate", flowRate>>,
             <<"withdrawDuration", (withdrawVol + WithdrawCalOffset) \div flowRate>> >>

\* infuse(pump, infuseVol, flowRate)
infuse(cmds, infuseVol, flowRate) ==
  cmds \o << <<"setinfusionrate", flowRate>>,
             <<"infuseDuration", (infuseVol + InfuseCalOffset) \div flowRate>> >>

----------------------------------------------------------------------------
(* dosing_run.py: configuration (DosingConfig defaults, the example reservoirs *)
(* and plate layout of the module's __main__)                                  *)

plate_clear_z_mm == 1000
plate_dispense_z_mm == 200
travel_feedrate == 3000
z_feedrate == 800
swirl_feedrate == 1200
reservoir_swirly_radius_mm == 150
reservoir_swirly_loops == 1
pump_withdraw_rate_ul_s == 50
pump_infuse_rate_ul_s == 50
z_aspirate_mm == 150
z_clear_mm == 800

source_positions(lab) ==
  [label |-> lab,
   x_mm |-> IF lab = "A" THEN 5000 ELSE IF lab = "B" THEN 7000 ELSE 9000,
   y_mm |-> 2000, z_aspirate_mm |-> z_aspirate_mm, z_clear_mm |-> z_clear_mm]

plate_layout(y_positive_down) ==
  [a1_x_mm |-> 20000, a1_y_mm |-> 10000, col_pitch_mm |-> 900, row_pitch_mm |-> 900,
   y_positive_down |-> y_positive_down]

\* mover.go_to(z=..., feedrate=..., rapid=...); rapid is 1 unless rapid=False is passed
go_to_z(z, f, rapid) == <<"go_to_z", z, f, rapid>>
go_to_xy(x, y, f) == <<"go_to_xy", x, y, f>>

move_to_reservoir_clear(res) ==
  << go_to_z(res.z_clear_mm, z_feedrate, 1), go_to_xy(res.x_mm, res.y_mm, travel_feedrate) >>

\* Faulty variant: the pump is driven before the head has descended.
aspirate_from_reservoir_early(res, volume_ul, cfg) ==
  << <<"withdraw", volume_ul, pump_withdraw_rate_ul_s>>,
     go_to_z(res.z_aspirate_mm, z_feedrate, 0) >>
  \o (IF cfg.delay_after_withdraw_s > 0 THEN << <<"dwell", cfg.delay_after_withdraw_s>> >>
      ELSE << >>)
  \o << go_to_z(res.z_clear_mm, z_feedrate, 1) >>

\* Faulty variant: the head stays at the aspirate height after the withdraw.
aspirate_from_reservoir_without_ascent(res, volume_ul, cfg) ==
  << go_to_z(res.z_aspirate_mm, z_feedrate, 0),
     <<"withdraw", volume_ul, pump_withdraw_rate_ul_s>> >>
  \o (IF cfg.delay_after_withdraw_s > 0 THEN << <<"dwell", cfg.delay_after_withdraw_s>> >>
      ELSE << >>)

aspirate_from_reservoir(res, volume_ul, cfg) ==
  << go_to_z(res.z_aspirate_mm, z_feedrate, 0),
     <<"withdraw", volume_ul, pump_withdraw_rate_ul_s>> >>
  \o (IF cfg.delay_after_withdraw_s > 0 THEN << <<"dwell", cfg.delay_after_withdraw_s>> >>
      ELSE << >>)
  \o << go_to_z(res.z_clear_mm, z_feedrate, 1) >>

swirl_at_reservoir(res) ==
  << <<"swirly", res.x_mm, res.y_mm, res.z_clear_mm, reservoir_swirly_radius_mm,
       reservoir_swirly_loops, swirl_feedrate>> >>

\* Faulty variant: the head is lifted but not moved over the well.
move_to_well_clear_lift_only(x_mm, y_mm) == << go_to_z(plate_clear_z_mm, z_feedrate, 1) >>

move_to_well_clear(x_mm, y_mm) ==
  << go_to_z(plate_clear_z_mm, z_feedrate, 1), go_to_xy(x_mm, y_mm, travel_feedrate) >>

\* Faulty variant: the head descends and lifts but the pump is not driven.
dispense_into_well_without_infuse(x_mm, y_mm, volume_ul, cfg) ==
  << go_to_z(plate_dispense_z_mm, z_feedrate, 0) >>
  \o (IF cfg.delay_after_dispense_s > 0 THEN << <<"dwell", cfg.delay_after_dispense_s>> >>
      ELSE << >>)
  \o << go_to_z(plate_clear_z_mm, z_feedrate, 1) >>

\* Faulty variant: the volume is infused twice.
dispense_into_well_double_infuse(x_mm, y_mm, volume_ul, cfg) ==
  << go_to_z(plate_dispense_z_mm, z_feedrate, 0),
     <<"infuse", volume_ul, pump_infuse_rate_ul_s>>,
     <<"infuse", volume_ul, pump_infuse_rate_ul_s>>,
     go_to_z(plate_clear_z_mm, z_feedrate, 1) >>

dispense_into_well(x_mm, y_mm, volume_ul, cfg) ==
  << go_to_z(plate_dispense_z_mm, z_feedrate, 0),
     <<"infuse", volume_ul, pump_infuse_rate_ul_s>> >>
  \o (IF cfg.delay_after_dispense_s > 0 THEN << <<"dwell", cfg.delay_after_dispense_s>> >>
      ELSE << >>)
  \o << go_to_z(plate_clear_z_mm, z_feedrate, 1) >>

\* The pump driver behind DosingExecutor (class Pump): the volume it commands is
\* the volume it is passed plus the calibration offset.
Pump_command(cmds, call) ==
  IF call[1] = "withdraw" THEN Append(cmds, <<"withdraw", call[2] + WithdrawCalOffset>>)
  ELSE IF call[1] = "infuse" THEN Append(cmds, <<"infuse", call[2] + InfuseCalOffset>>)
  ELSE cmds

----------------------------------------------------------------------------
(* Inputs *)

ReservoirSets == { {"A", "B", "C"}, {"A", "B"}, {"A"} }

\* run_dosing: the overdraw argument and the plate the planner (or main) names
RunDosingArgs ==
  { [overdraw_uL |-> 0, plate_meta |-> [name |-> "96-well (8x12)"]],
    [overdraw_uL |-> uL(2), plate_meta |-> [name |-> "384-well (16x24)"]],
    [overdraw_uL |-> -uL(2), plate_meta |-> [name |-> "96-well (8x12)"]] }

NoOrder == [given |-> FALSE, seq |-> << >>]
Given(s) == [given |-> TRUE, seq |-> s]
DelayCfg(w, d) == [delay_after_withdraw_s |-> w, delay_after_dispense_s |-> d]

\* DosingExecutor: sources_order, the two delays of DosingConfig (default 0.2 s),
\* the layout's y direction, and whether pump and mover are connected at entry
ExecutorArgs ==
  { [sources_order |-> NoOrder, cfg |-> DelayCfg(2, 2), y_positive_down |-> TRUE,
     pumpConnected |-> FALSE, moverConnected |-> FALSE],
    [sources_order |-> NoOrder, cfg |-> DelayCfg(0, 2), y_positive_down |-> FALSE,
     pumpConnected |-> TRUE, moverConnected |-> FALSE],
    [sources_order |-> Given(<<"B", "A", "C">>), cfg |-> DelayCfg(2, 0),
     y_positive_down |-> TRUE, pumpConnected |-> FALSE, moverConnected |-> TRUE],
    [sources_order |-> Given(<<"A", "C", "A">>), cfg |-> DelayCfg(2, 2),
     y_positive_down |-> FALSE, pumpConnected |-> TRUE, moverConnected |-> TRUE] }

PumpVolumes == {0, uL(5), uL(10)}
\* Longest sequence of pump helper calls explored.
MaxPumpCalls == 4

----------------------------------------------------------------------------
(* Initial states *)

Idle ==
  /\ ser = "unopened" /\ order = << >> /\ by_fluid = << >> /\ fi = 0 /\ wi = 0
  /\ todo = << >> /\ phase = "idle" /\ line = << >> /\ calls = << >>
  /\ pumpCmds = << >> /\ cycles = << >> /\ result = "running" /\ missing = << >>

InitRunDosing ==
  /\ variant = "run_dosing" /\ pc = "main"
  /\ plan \in Plans /\ reservoirs \in ReservoirSets
  /\ \E a \in RunDosingArgs :
       /\ overdraw_uL = a.overdraw_uL
       /\ setup = [plate_meta |-> a.plate_meta]
  /\ sources_order = NoOrder /\ pumpConnected = FALSE /\ moverConnected = FALSE
  /\ Idle

InitExecutor ==
  /\ variant = "DosingExecutor" /\ pc = "run"
  /\ plan \in Plans /\ reservoirs \in ReservoirSets
  /\ \E a \in ExecutorArgs :
       /\ sources_order = a.sources_order
       /\ setup = [cfg |-> a.cfg, layout |-> plate_layout(a.y_positive_down),
                   entry |-> [pump |-> a.pumpConnected, mover |-> a.moverConnected]]
       /\ pumpConnected = a.pumpConnected
       /\ moverConnected = a.moverConnected
  /\ overdraw_uL = 0
  /\ Idle

Init == InitRunDosing \/ InitExecutor

----------------------------------------------------------------------------
(* The current per-well cycle *)

Cycle(lab, row, col, v) == [lab |-> lab, row |-> row, col |-> col, v |-> v]
Cur == cycles[Len(cycles)]
Tag(c) == [cyc |-> Len(cycles), c |-> c]

----------------------------------------------------------------------------
(* dosingExecuter.py: main and run_dosing *)

\* Faulty variant: the exception is swallowed and the loop goes on.
propagate_swallowed(p) == "loop"

\* Where control goes when a call raises at position p: neither run_dosing nor
\* DosingExecutor.run has a try/except, so the exception leaves the function;
\* run_dosing was called inside main's try/finally, DosingExecutor.run was not.
propagate(p) == IF variant = "run_dosing" THEN "finally" ELSE "exit"

\* main line 252: ser = serial.Serial(port, baud, timeout=2)
Main_OpenSerial ==
  /\ variant = "run_dosing" /\ pc = "main"
  /\ ser' = "open" /\ pc' = "run_dosing"
  /\ UNCHANGED <<variant, plan, reservoirs, sources_order, overdraw_uL, setup,
                 pumpConnected, moverConnected, order, by_fluid, fi, wi, todo, phase,
                 line, calls, pumpCmds, cycles, result, missing>>

\* run_dosing lines 171-191: resolve the plate, group, validate, queue the startup
RD_Enter ==
  /\ variant = "run_dosing" /\ pc = "run_dosing"
  /\ LET g == group_plan_by_fluid(plan)
         miss == validate_reservoirs(g, reservoirs)
     IN /\ by_fluid' = g
        /\ order' = DictKeys(g)
        /\ IF g = << >>
           THEN result' = "returned" /\ pc' = "finally" /\ UNCHANGED <<missing, todo, fi, wi>>
           ELSE IF miss # << >>
           THEN /\ result' = "ValueError" /\ missing' = miss /\ pc' = "finally"
                /\ UNCHANGED <<todo, fi, wi>>
           ELSE /\ todo' = StartupCmds /\ pc' = "loop" /\ fi' = 1 /\ wi' = 1
                /\ UNCHANGED <<result, missing>>
  /\ UNCHANGED <<variant, plan, reservoirs, sources_order, overdraw_uL, setup,
                 pumpConnected, moverConnected, ser, phase, line, calls, pumpCmds, cycles>>

\* command() line 22: ser.write(cmd)
Cmd_Write ==
  /\ variant = "run_dosing" /\ todo # << >> /\ phase = "idle"
  /\ calls' = Append(calls, Tag(Head(todo)))
  /\ phase' = "wait" /\ line' = << >>
  /\ UNCHANGED <<variant, plan, reservoirs, sources_order, overdraw_uL, setup,
                 pumpConnected, moverConnected, ser, pc, order, by_fluid, fi, wi, todo,
                 pumpCmds, cycles, result, missing>>

\* command() lines 25-30: one readline(); the call returns when the line is an ack
Cmd_ReadLine ==
  /\ variant = "run_dosing" /\ phase = "wait"
  /\ \E l \in Lines :
       /\ line' = l
       /\ IF IsAck(l) THEN phase' = "idle" /\ todo' = Tail(todo)
          ELSE UNCHANGED <<phase, todo>>
  /\ UNCHANGED <<variant, plan, reservoirs, sources_order, overdraw_uL, setup,
                 pumpConnected, moverConnected, ser, pc, order, by_fluid, fi, wi, calls,
                 pumpCmds, cycles, result, missing>>

\* command() line 22 when the port has failed: ser.write raises SerialException,
\* which nothing catches before main's finally; the instructions that the
\* interrupted helper had still to send are abandoned.
Cmd_WriteRaises ==
  /\ variant = "run_dosing" /\ todo # << >> /\ phase = "idle"
  /\ result' = "SerialException" /\ todo' = << >> /\ pc' = propagate(pc)
  /\ UNCHANGED <<variant, plan, reservoirs, sources_order, overdraw_uL, setup,
                 pumpConnected, moverConnected, ser, order, by_fluid, fi, wi, phase,
                 line, calls, pumpCmds, cycles, missing>>

\* run_dosing lines 193-204: the next (fluid, well) and the move to its reservoir
RD_NextWell ==
  /\ variant = "run_dosing" /\ pc = "loop" /\ todo = << >> /\ phase = "idle"
  /\ fi <= Len(by_fluid) /\ wi <= Len(by_fluid[fi].wells)
  /\ LET lab == by_fluid[fi].lab
         w == by_fluid[fi].wells[wi]
         res_xy == FLUID_RESERVOIRS(lab)
     IN /\ cycles' = Append(cycles, Cycle(lab, w.row, w.col, w.volume_uL))
        /\ todo' = moveTo(res_xy[1], res_xy[2], TRAVEL_Z, TRAVEL_Z, F_XY)
  /\ pc' = "descend"
  /\ UNCHANGED <<variant, plan, reservoirs, sources_order, overdraw_uL, setup,
                 pumpConnected, moverConnected, ser, order, by_fluid, fi, wi, phase, line,
                 calls, pumpCmds, result, missing>>

\* run_dosing line 205: hw.dosePositioning(ser, z=ASPIRATE_Z, speed=F_Z)
RD_DosePositioning ==
  /\ variant = "run_dosing" /\ pc = "descend" /\ todo = << >> /\ phase = "idle"
  /\ todo' = dosePositioning(ASPIRATE_Z, F_Z)
  /\ pc' = "withdraw"
  /\ UNCHANGED <<variant, plan, reservoirs, sources_order, overdraw_uL, setup,
                 pumpConnected, moverConnected, ser, order, by_fluid, fi, wi, phase, line,
                 calls, pumpCmds, cycles, result, missing>>

Max(a, b) == IF a >= b THEN a ELSE b

\* run_dosing lines 201, 206-207: pickup = v + max(0.0, overdraw_uL); hw.withdraw(pickup).
\* The call passes one positional argument to withdraw(pump, withdrawVol, ...), so
\* Python raises TypeError before the body runs; lines 212-227 are never reached.
RD_Withdraw ==
  /\ variant = "run_dosing" /\ pc = "withdraw" /\ todo = << >> /\ phase = "idle"
  /\ LET pickup == Cur.v + Max(0, overdraw_uL)
         args == << pickup >>
     IN IF Len(args) < WithdrawRequiredArgs
        THEN result' = "TypeError" /\ pc' = propagate(pc) /\ UNCHANGED pumpCmds
        ELSE /\ pumpCmds' = withdraw(pumpCmds, args[2], DefaultFlowRate)
             /\ pc' = "finally" /\ UNCHANGED result
  /\ UNCHANGED <<variant, plan, reservoirs, sources_order, overdraw_uL, setup,
                 pumpConnected, moverConnected, ser, order, by_fluid, fi, wi, todo, phase,
                 line, calls, cycles, missing>>

\* main lines 256-260: finally: ser.close()
Main_Close ==
  /\ variant = "run_dosing" /\ pc = "finally"
  /\ ser' = "closed" /\ pc' = "exit"
  /\ UNCHANGED <<variant, plan, reservoirs, sources_order, overdraw_uL, setup,
                 pumpConnected, moverConnected, order, by_fluid, fi, wi, todo, phase,
                 line, calls, pumpCmds, cycles, result, missing>>

----------------------------------------------------------------------------
(* dosing_run.py: DosingExecutor.run *)

\* Faulty variant: connect() is called on both drivers whatever their state.
ensure_connected_always(pumpConn, moverConn) ==
  << <<"pump.connect">>, <<"mover.connect">> >>

\* _ensure_connected: connect() on each driver that is not connected
ensure_connected(pumpConn, moverConn) ==
  (IF ~pumpConn THEN << <<"pump.connect">> >> ELSE << >>)
  \o (IF ~moverConn THEN << <<"mover.connect">> >> ELSE << >>)

\* run lines 84-98: parse, return on an empty plan, connect, order, group; ordering
\* and grouping read volumes_uL as a dict and raise AttributeError when it is not
EX_Run ==
  /\ variant = "DosingExecutor" /\ pc = "run"
  /\ LET entries == parse_plan(plan)
         conn == ensure_connected(pumpConnected, moverConnected)
     IN IF entries = << >>
        THEN /\ result' = "returned" /\ pc' = "exit"
             /\ UNCHANGED <<pumpConnected, moverConnected, calls, order, by_fluid, fi>>
        ELSE /\ calls' = calls \o [i \in 1..Len(conn) |-> Tag(conn[i])]
             /\ pumpConnected' = TRUE /\ moverConnected' = TRUE
             /\ IF \E i \in 1..Len(entries) : ~IsMapping(entries[i].volumes_uL)
                THEN \* .keys() or .items() of a value that is not a dict
                     /\ result' = "AttributeError" /\ pc' = propagate(pc)
                     /\ UNCHANGED <<order, by_fluid, fi>>
                ELSE /\ order' = IF sources_order.given THEN sources_order.seq
                                 ELSE infer_sources_order(entries)
                     /\ by_fluid' = group_wells_by_source(entries)
                     /\ fi' = 1 /\ pc' = "loop"
                     /\ UNCHANGED result
  /\ UNCHANGED <<variant, plan, reservoirs, sources_order, overdraw_uL, setup, ser, wi,
                 todo, phase, line, pumpCmds, cycles, missing>>

\* run lines 101-113: the next label; skip it without a reservoir or without wells
EX_NextSource ==
  /\ variant = "DosingExecutor" /\ pc = "loop" /\ fi <= Len(order)
  /\ IF order[fi] \notin reservoirs \/ ~HasKey(by_fluid, order[fi])
     THEN fi' = fi + 1 /\ UNCHANGED <<pc, wi>>
     ELSE pc' = "wells" /\ wi' = 1 /\ UNCHANGED fi
  /\ UNCHANGED <<variant, plan, reservoirs, sources_order, overdraw_uL, setup,
                 pumpConnected, moverConnected, ser, order, by_fluid, todo, phase, line,
                 calls, pumpCmds, cycles, result, missing>>

\* run line 139: every label of the order has been processed
EX_Complete ==
  /\ variant = "DosingExecutor" /\ pc = "loop" /\ fi > Len(order)
  /\ result' = "complete" /\ pc' = "exit"
  /\ UNCHANGED <<variant, plan, reservoirs, sources_order, overdraw_uL, setup,
                 pumpConnected, moverConnected, ser, order, by_fluid, fi, wi, todo, phase,
                 line, calls, pumpCmds, cycles, missing>>

\* run lines 116-122: the next well of the current label; _move_to_reservoir_clear
EX_NextWell ==
  /\ variant = "DosingExecutor" /\ pc = "wells" /\ todo = << >>
  /\ LET src_label == order[fi]
         wells == Lookup(by_fluid, src_label)
     IN IF wi > Len(wells)
        THEN fi' = fi + 1 /\ pc' = "loop" /\ UNCHANGED <<wi, cycles, todo>>
        ELSE LET entry == wells[wi]
                 vol_ul == Get(entry.volumes_uL, src_label, 0)
             IN IF vol_ul <= 0
                THEN wi' = wi + 1 /\ UNCHANGED <<fi, pc, cycles, todo>>
                ELSE /\ cycles' = Append(cycles, Cycle(src_label, entry.row, entry.col, vol_ul))
                     /\ todo' = move_to_reservoir_clear(source_positions(src_label))
                     /\ pc' = "aspirate"
                     /\ UNCHANGED <<fi, wi>>
  /\ UNCHANGED <<variant, plan, reservoirs, sources_order, overdraw_uL, setup,
                 pumpConnected, moverConnected, ser, order, by_fluid, phase, line, calls,
                 pumpCmds, result, missing>>

\* run line 125: _aspirate_from_reservoir(reservoir, vol_ul)
EX_Aspirate ==
  /\ variant = "DosingExecutor" /\ pc = "aspirate" /\ todo = << >>
  /\ todo' = aspirate_from_reservoir(source_positions(Cur.lab), Cur.v, setup.cfg)
  /\ pc' = "swirl"
  /\ UNCHANGED <<variant, plan, reservoirs, sources_order, overdraw_uL, setup,
                 pumpConnected, moverConnected, ser, order, by_fluid, fi, wi, phase, line,
                 calls, pumpCmds, cycles, result, missing>>

\* run line 128: _swirl_at_reservoir(reservoir)
EX_Swirl ==
  /\ variant = "DosingExecutor" /\ pc = "swirl" /\ todo = << >>
  /\ todo' = swirl_at_reservoir(source_positions(Cur.lab))
  /\ pc' = "to_well"
  /\ UNCHANGED <<variant, plan, reservoirs, sources_order, overdraw_uL, setup,
                 pumpConnected, moverConnected, ser, order, by_fluid, fi, wi, phase, line,
                 calls, pumpCmds, cycles, result, missing>>

\* run lines 131-132: _well_xy_mm, _move_to_well_clear
EX_MoveToWell ==
  /\ variant = "DosingExecutor" /\ pc = "to_well" /\ todo = << >>
  /\ LET xy == well_xy_mm(Cur.row, Cur.col, setup.layout)
     IN todo' = move_to_well_clear(xy[1], xy[2])
  /\ pc' = "dispense"
  /\ UNCHANGED <<variant, plan, reservoirs, sources_order, overdraw_uL, setup,
                 pumpConnected, moverConnected, ser, order, by_fluid, fi, wi, phase, line,
                 calls, pumpCmds, cycles, result, missing>>

\* run line 135: _dispense_into_well; the loop then continues with the next well
EX_Dispense ==
  /\ variant = "DosingExecutor" /\ pc = "dispense" /\ todo = << >>
  /\ LET xy == well_xy_mm(Cur.row, Cur.col, setup.layout)
     IN todo' = dispense_into_well(xy[1], xy[2], Cur.v, setup.cfg)
  /\ pc' = "wells" /\ wi' = wi + 1
  /\ UNCHANGED <<variant, plan, reservoirs, sources_order, overdraw_uL, setup,
                 pumpConnected, moverConnected, ser, order, by_fluid, fi, phase, line,
                 calls, pumpCmds, cycles, result, missing>>

\* One call on the mover or the pump; a pump call reaches the pump driver.
EX_Call ==
  /\ variant = "DosingExecutor" /\ todo # << >>
  /\ calls' = Append(calls, Tag(Head(todo)))
  /\ pumpCmds' = Pump_command(pumpCmds, Head(todo))
  /\ todo' = Tail(todo)
  /\ UNCHANGED <<variant, plan, reservoirs, sources_order, overdraw_uL, setup,
                 pumpConnected, moverConnected, ser, pc, order, by_fluid, fi, wi, phase,
                 line, cycles, result, missing>>

\* A call on the mover or the pump raises: run has no try/except, so the exception
\* leaves run at once and the rest of the step is abandoned.
EX_CallRaises ==
  /\ variant = "DosingExecutor" /\ todo # << >>
  /\ result' = "DriverError" /\ todo' = << >> /\ pc' = propagate(pc)
  /\ UNCHANGED <<variant, plan, reservoirs, sources_order, overdraw_uL, setup,
                 pumpConnected, moverConnected, ser, order, by_fluid, fi, wi, phase,
                 line, calls, pumpCmds, cycles, missing>>

----------------------------------------------------------------------------
(* The run *)

Next ==
  \/ Main_OpenSerial \/ RD_Enter \/ Cmd_Write \/ Cmd_ReadLine \/ Cmd_WriteRaises
  \/ RD_NextWell
  \/ RD_DosePositioning \/ RD_Withdraw \/ Main_Close
  \/ EX_Run \/ EX_NextSource \/ EX_Complete \/ EX_NextWell \/ EX_Aspirate \/ EX_Swirl
  \/ EX_MoveToWell \/ EX_Dispense \/ EX_Call \/ EX_CallRaises

Spec == Init /\ [][Next]_vars

\* The program is one thread that is never suspended: while a step is possible,
\* a step is taken.  Which line the controller sends is left open.
SpecFair == Spec /\ WF_vars(Next)

----------------------------------------------------------------------------
(* The run under a user interrupt *)

\* Ctrl-C while a run that has begun a per-well cycle is under way: Python raises
\* KeyboardInterrupt in the statement being executed.  Neither orchestrator has a
\* handler for it, so it leaves the function like any other exception: the call
\* in progress and the rest of the step are abandoned, and nothing is sent to the
\* mover or the pump on the way out.
Interrupt ==
  /\ variant \in {"run_dosing", "DosingExecutor"}
  /\ result = "running" /\ cycles # << >> /\ pc \notin {"finally", "exit"}
  /\ result' = "KeyboardInterrupt" /\ todo' = << >> /\ phase' = "idle"
  /\ pc' = propagate(pc)
  /\ UNCHANGED <<variant, plan, reservoirs, sources_order, overdraw_uL, setup,
                 pumpConnected, moverConnected, ser, order, by_fluid, fi, wi, line,
                 calls, pumpCmds, cycles, missing>>

NextInterrupt == Next \/ Interrupt

SpecInterrupt == Init /\ [][NextInterrupt]_vars

----------------------------------------------------------------------------
(* The pump helpers of hardwareInterfaces called on their own *)

InitPump ==
  /\ variant = "pump" /\ pc = "pump"
  /\ plan = << >> /\ reservoirs = {} /\ sources_order = NoOrder /\ overdraw_uL = 0
  /\ setup = [flowRate |-> DefaultFlowRate]
  /\ pumpConnected = TRUE /\ moverConnected = FALSE
  /\ Idle

\* withdraw(pump, v): calls records the volume passed, pumpCmds what the pump gets
Pump_Withdraw ==
  /\ variant = "pump" /\ Len(calls) < MaxPumpCalls
  /\ \E v \in PumpVolumes :
       /\ calls' = Append(calls, Tag(<<"withdraw", v>>))
       /\ pumpCmds' = withdraw(pumpCmds, v, setup.flowRate)
  /\ UNCHANGED <<variant, plan, reservoirs, sources_order, overdraw_uL, setup,
                 pumpConnected, moverConnected, ser, pc, order, by_fluid, fi, wi, todo,
                 phase, line, cycles, result, missing>>

\* infuse(pump, v)
Pump_Infuse ==
  /\ variant = "pump" /\ Len(calls) < MaxPumpCalls
  /\ \E v \in PumpVolumes :
       /\ calls' = Append(calls, Tag(<<"infuse", v>>))
       /\ pumpCmds' = infuse(pumpCmds, v, setup.flowRate)
  /\ UNCHANGED <<variant, plan, reservoirs, sources_order, overdraw_uL, setup,
                 pumpConnected, moverConnected, ser, pc, order, by_fluid, fi, wi, todo,
                 phase, line, cycles, result, missing>>

NextPump == Pump_Withdraw \/ Pump_Infuse

SpecPump == InitPump /\ [][NextPump]_vars

----------------------------------------------------------------------------
(* The two well-to-machine conversions applied on their own *)

\* Largest row and column index converted.
MaxRow == 2
MaxCol == 2

\* Layouts: the plate presets of PLATE_OFFSETS and the example layout of
\* dosing_run.py, each with either direction of the machine's Y axis.
Layouts ==
  { [a1_x_mm |-> g.a1_x, a1_y_mm |-> g.a1_y, col_pitch_mm |-> g.pitch_x,
     row_pitch_mm |-> g.pitch_y, y_positive_down |-> d] :
      g \in { PLATE_OFFSETS(n) : n \in PlateNames }, d \in BOOLEAN }
  \cup { plate_layout(d) : d \in BOOLEAN }

InitXY ==
  /\ variant = "convert" /\ pc = "convert"
  /\ plan = << >> /\ reservoirs = {} /\ sources_order = NoOrder /\ overdraw_uL = 0
  /\ \E l \in Layouts, r \in 0..MaxRow, c \in 0..MaxCol :
       setup = [layout |-> l, row |-> r, col |-> c]
  /\ pumpConnected = FALSE /\ moverConnected = FALSE
  /\ Idle

Converted(fn) == \E i \in 1..Len(calls) : calls[i].c[1] = fn

\* DosingExecutor._well_xy_mm(row, col) on the layout
Conv_well_xy_mm ==
  /\ variant = "convert" /\ ~Converted("well_xy_mm")
  /\ LET xy == well_xy_mm(setup.row, setup.col, setup.layout)
     IN calls' = Append(calls, Tag(<<"well_xy_mm", xy[1], xy[2]>>))
  /\ UNCHANGED <<variant, plan, reservoirs, sources_order, overdraw_uL, setup,
                 pumpConnected, moverConnected, ser, pc, order, by_fluid, fi, wi, todo,
                 phase, line, pumpCmds, cycles, result, missing>>

\* well_to_xy(row, col, a1_x, a1_y, pitch_x, pitch_y), as run_dosing calls it: the
\* origin and pitches are all that it is given of a layout
Conv_well_to_xy ==
  /\ variant = "convert" /\ ~Converted("well_to_xy")
  /\ LET l == setup.layout
         xy == well_to_xy(setup.row, setup.col, l.a1_x_mm, l.a1_y_mm,
                          l.col_pitch_mm, l.row_pitch_mm)
     IN calls' = Append(calls, Tag(<<"well_to_xy", xy[1], xy[2]>>))
  /\ UNCHANGED <<variant, plan, reservoirs, sources_order, overdraw_uL, setup,
                 pumpConnected, moverConnected, ser, pc, order, by_fluid, fi, wi, todo,
                 phase, line, pumpCmds, cycles, result, missing>>

NextXY == Conv_well_xy_mm \/ Conv_well_to_xy

SpecXY == InitXY /\ [][NextXY]_vars

----------------------------------------------------------------------------
(* Plans as they arrive from a file or a caller: _parse_plan alone, and *)
(* DosingExecutor.run on such plans                                     *)

RawEntries ==
  { [row |-> 0, col |-> 0, volumes_uL |-> << Item("A", uL(10)), Item("B", uL(3)) >>],
    [row |-> 0, volumes_uL |-> << Item("A", uL(10)) >>],
    [row |-> 0, col |-> 1],
    [nondict |-> "A1"],
    [row |-> 1, col |-> 0, volumes_uL |-> << [scalar |-> 5] >>],
    [row |-> -1, col |-> 0, volumes_uL |-> << Item("A", uL(10)) >>],
    [row |-> 0, col |-> 1, volumes_uL |-> << Item("A", -uL(10)), Item("B", uL(3)) >>] }

\* Longest raw plan explored.
MaxRawLen == 2
RawPlans == UNION { [1..n -> RawEntries] : n \in 0..MaxRawLen }

InitParse ==
  /\ variant = "parse" /\ pc = "parse"
  /\ plan \in RawPlans /\ reservoirs = {} /\ sources_order = NoOrder /\ overdraw_uL = 0
  /\ \E d \in BOOLEAN : setup = [decodes |-> d]
  /\ pumpConnected = FALSE /\ moverConnected = FALSE
  /\ Idle

\* DosingExecutor._parse_plan(plan), the plan being the text of a list that
\* decodes or of something that does not
Parse_plan ==
  /\ variant = "parse" /\ pc = "parse"
  /\ calls' = Append(calls, Tag(<<"parse_plan", parse_plan_json(setup.decodes, plan)>>))
  /\ result' = "returned" /\ pc' = "exit"
  /\ UNCHANGED <<variant, plan, reservoirs, sources_order, overdraw_uL, setup,
                 pumpConnected, moverConnected, ser, order, by_fluid, fi, wi, todo,
                 phase, line, pumpCmds, cycles, missing>>

NextParse == Parse_plan

SpecParse == InitParse /\ [][NextParse]_vars

InitRaw ==
  /\ variant = "DosingExecutor" /\ pc = "run"
  /\ plan \in RawPlans /\ reservoirs \in ReservoirSets
  /\ \E a \in ExecutorArgs :
       /\ sources_order = a.sources_order
       /\ setup = [cfg |-> a.cfg, layout |-> plate_layout(a.y_positive_down),
                   entry |-> [pump |-> a.pumpConnected, mover |-> a.moverConnected]]
       /\ pumpConnected = a.pumpConnected
       /\ moverConnected = a.moverConnected
  /\ overdraw_uL = 0
  /\ Idle

NextRaw ==
  \/ EX_Run \/ EX_NextSource \/ EX_Complete \/ EX_NextWell \/ EX_Aspirate \/ EX_Swirl
  \/ EX_MoveToWell \/ EX_Dispense \/ EX_Call \/ EX_CallRaises

SpecRaw == InitRaw /\ [][NextRaw]_vars

----------------------------------------------------------------------------
(* doserGUI.py: the planner (DosingModel and the handlers of DosingApp) *)

Alphabet ==
  << "A", "B", "C", "D", "E", "F", "G", "H", "I", "J", "K", "L", "M", "N", "O", "P", "Q",
     "R", "S", "T", "U", "V", "W", "X", "Y", "Z" >>
Digit == << "0", "1", "2", "3", "4", "5", "6", "7", "8", "9" >>

\* index_to_letters: while n > 0: n, r = divmod(n - 1, 26); s = chr(65 + r) + s
RECURSIVE LettersLoop(_, _)
LettersLoop(n, s) ==
  IF n > 0 THEN LettersLoop((n - 1) \div 26, << Alphabet[((n - 1) % 26) + 1] >> \o s)
  ELSE s
index_to_letters(idx_zero_based) == LettersLoop(idx_zero_based + 1, << >>)

\* str(n) of a positive integer
RECURSIVE Decimal(_)
Decimal(n) ==
  IF n < 10 THEN << Digit[n + 1] >> ELSE Decimal(n \div 10) \o << Digit[(n % 10) + 1] >>

\* well_id: f"{index_to_letters(row)}{col+1}", as a sequence of characters
well_id(row, col) == index_to_letters(row) \o Decimal(col + 1)

default_source_labels == << "A", "B", "C", "D", "E", "F" >>

\* A float of the planner is its value in 1/10000 uL, or NaN, coded as a number
\* that no volume and no maximum of the model equals; comparisons with NaN are
\* false and a sum with NaN is NaN, as in Python.
NaN == -999999999
float_lt(a, b) == a # NaN /\ b # NaN /\ a < b
float_gt(a, b) == a # NaN /\ b # NaN /\ a > b
float_le(a, b) == a # NaN /\ b # NaN /\ a <= b
float_add(a, b) == IF a = NaN \/ b = NaN THEN NaN ELSE a + b
\* sum(volumes.values()) of planner floats
RECURSIVE float_sum(_)
float_sum(m) == IF m = << >> THEN 0 ELSE float_add(Head(m).v, float_sum(Tail(m)))

\* float(txt) on the texts the model types: the texts Python converts, with the
\* value of each; float raises ValueError on every other text.
FloatOf ==
  [ txt \in {"0", "5", "7", "10", "60", "150", "-1", "nan"} |->
      CASE txt = "0" -> 0 [] txt = "5" -> uL(5) [] txt = "7" -> uL(7)
        [] txt = "10" -> uL(10) [] txt = "60" -> uL(60) [] txt = "150" -> uL(150)
        [] txt = "-1" -> -uL(1) [] txt = "nan" -> NaN ]

\* {s.label: 0.0 for s in self.sources}: a key per label, in first-seen order
ZeroVolumes(sources) ==
  LET idx == SelectSeq([i \in 1..Len(sources) |-> i],
                       LAMBDA i : \A j \in 1..(i - 1) : sources[j] # sources[i])
  IN [k \in 1..Len(idx) |-> Item(sources[idx[k]], 0)]

\* Two of the plate presets of DosingApp.
plate_presets ==
  { [name |-> "96-well (8x12)", rows |-> 8, cols |-> 12],
    [name |-> "24-well (4x6)", rows |-> 4, cols |-> 6] }

\* self.wells as an ordered dict: a sequence of [wid, row, col, volumes].
HasWell(d, wid) == \E i \in 1..Len(d) : d[i].wid = wid
\* The assignments self.wells[wid] = {...} of _init_wells, in the order of its
\* loops over range(rows) and range(cols)
WellAssignments(plate, sources) ==
  [i \in 1..(plate.rows * plate.cols) |->
     LET r == (i - 1) \div plate.cols
         c == (i - 1) % plate.cols
     IN [idx |-> i,
         w |-> [wid |-> well_id(r, c), row |-> r, col |-> c,
                volumes |-> ZeroVolumes(sources)]]]
\* _init_wells: the dict those assignments leave, starting from the empty one: a
\* key stands where it was first assigned and holds what it was last assigned
init_wells(plate, sources) ==
  LET asg == WellAssignments(plate, sources)
      first == SelectSeq(asg, LAMBDA a : \A j \in 1..(a.idx - 1) : asg[j].w.wid # a.w.wid)
      last(wid) == CHOOSE j \in 1..Len(asg) :
                     /\ asg[j].w.wid = wid
                     /\ \A k \in (j + 1)..Len(asg) : asg[k].w.wid # wid
  IN [i \in 1..Len(first) |-> asg[last(first[i].w.wid)].w]

\* set_sources lines 44-51: every well gets a volume per new label, the previous
\* value where the label was a key before, 0.0 otherwise
set_sources(d, sources) ==
  LET zero == ZeroVolumes(sources)
  IN [i \in 1..Len(d) |->
        [d[i] EXCEPT !.volumes =
           [k \in 1..Len(zero) |-> Item(zero[k].lab, Get(d[i].volumes, zero[k].lab, 0))]]]

\* on_save lines 419-432: each field stripped, "" read as "0", converted by float;
\* a text float rejects or a value < 0 is an error
FieldText(txt) == IF txt = "" THEN "0" ELSE txt
FieldInvalid(txt) ==
  \/ FieldText(txt) \notin DOMAIN FloatOf
  \/ float_lt(FloatOf[FieldText(txt)], 0)
new_vols_of(entries) ==
  [i \in 1..Len(entries) |-> Item(entries[i].lab, FloatOf[FieldText(entries[i].v)])]
\* on_save lines 419-439: TRUE when the dialog shows an error and returns
on_save_rejects(entries, max_vol) ==
  \/ \E i \in 1..Len(entries) : FieldInvalid(entries[i].v)
  \/ float_gt(float_sum(new_vols_of(entries)), max_vol)

\* Faulty variant: the saved volumes are stored as a further well of the dict.
save_volumes_as_new_well(d, wid, new_vols) ==
  LET i == CHOOSE j \in 1..Len(d) : d[j].wid = wid
  IN Append(d, [d[i] EXCEPT !.volumes = new_vols])

\* on_save line 441: self.model.wells[well_id]['volumes'] = new_vols
save_volumes(d, wid, new_vols) ==
  [i \in 1..Len(d) |-> IF d[i].wid = wid THEN [d[i] EXCEPT !.volumes = new_vols] ELSE d[i]]

\* begin_dosing lines 483-488: the wells whose total is above the maximum
begin_dosing_errors(d, max_vol) ==
  { i \in 1..Len(d) : float_gt(float_sum(d[i].volumes), max_vol) }

\* build_dosing_plan: an entry per well of self.wells, in the dict's order, whose
\* total is positive (the entry's center_px, a pixel position on the canvas, is
\* left out)
build_dosing_plan(d) ==
  LET kept == SelectSeq(d, LAMBDA w : ~float_le(float_sum(w.volumes), 0))
  IN [i \in 1..Len(kept) |->
        [well_id |-> kept[i].wid, row |-> kept[i].row, col |-> kept[i].col,
         volumes_uL |-> kept[i].volumes]]

\* What the user types into the fields of the volume dialog, one per source of
\* the application (A, B, C; the other three are left empty), after strip().
Typed(a, b, c) ==
  << Item("A", a), Item("B", b), Item("C", c), Item("D", ""), Item("E", ""), Item("F", "") >>
TypedVolumes ==
  { Typed("", "", ""), Typed("10", "", "5"), Typed("-1", "7", ""),
    Typed("150", "60", ""), Typed("abc", "", ""), Typed("nan", "", "") }
\* The wells the user clicks; each is on every preset.
ClickedWells == { <<0, 0>>, <<3, 5>> }
\* The values the user sets the maximum per-well volume to.
MaxVolumes == { max_well_volume, uL(12) }
\* The source lists a caller gives set_sources.
SourceLists == { default_source_labels, << "C", "A", "G" >> }
\* Longest sequence of planner events explored.
MaxEvents == 4

\* DosingApp.__init__: the first preset, the default sources and maximum
InitPlanner ==
  /\ variant = "planner" /\ pc = "editing"
  /\ plan = << >> /\ reservoirs = {} /\ sources_order = NoOrder /\ overdraw_uL = 0
  /\ LET p == [name |-> "96-well (8x12)", rows |-> 8, cols |-> 12]
     IN setup = [plate |-> p, sources |-> default_source_labels,
                 wells |-> init_wells(p, default_source_labels),
                 max_vol |-> max_well_volume]
  /\ pumpConnected = FALSE /\ moverConnected = FALSE
  /\ Idle

\* on_plate_changed: the selected preset becomes the plate; set_plate re-creates
\* the wells
GUI_PlateChanged ==
  /\ variant = "planner" /\ Len(calls) < MaxEvents
  /\ \E p \in plate_presets :
       setup' = [setup EXCEPT !.plate = p, !.wells = init_wells(p, setup.sources)]
  /\ calls' = Append(calls, Tag(<<"on_plate_changed">>))
  /\ pc' = "editing"
  /\ UNCHANGED <<variant, plan, reservoirs, sources_order, overdraw_uL, pumpConnected,
                 moverConnected, ser, order, by_fluid, fi, wi, todo, phase, line,
                 pumpCmds, cycles, result, missing>>

\* The spinbox bound to max_well_volume_var is set to another value.
GUI_MaxChanged ==
  /\ variant = "planner" /\ Len(calls) < MaxEvents
  /\ \E m \in MaxVolumes : m # setup.max_vol /\ setup' = [setup EXCEPT !.max_vol = m]
  /\ calls' = Append(calls, Tag(<<"max_well_volume_var.set">>))
  /\ pc' = "editing"
  /\ UNCHANGED <<variant, plan, reservoirs, sources_order, overdraw_uL, pumpConnected,
                 moverConnected, ser, order, by_fluid, fi, wi, todo, phase, line,
                 pumpCmds, cycles, result, missing>>

\* DosingModel.set_sources called on the application's model
Model_SetSources ==
  /\ variant = "planner" /\ Len(calls) < MaxEvents
  /\ \E srcs \in SourceLists :
       setup' = [setup EXCEPT !.sources = srcs, !.wells = set_sources(@, srcs)]
  /\ calls' = Append(calls, Tag(<<"set_sources">>))
  /\ pc' = "editing"
  /\ UNCHANGED <<variant, plan, reservoirs, sources_order, overdraw_uL, pumpConnected,
                 moverConnected, ser, order, by_fluid, fi, wi, todo, phase, line,
                 pumpCmds, cycles, result, missing>>

\* edit_well_volumes / on_save for a clicked well: the dialog has a field per
\* source of the application; an invalid field or a total above the maximum shows
\* an error and saves nothing
GUI_SaveWell ==
  /\ variant = "planner" /\ Len(calls) < MaxEvents
  /\ \E w \in ClickedWells, entries \in TypedVolumes :
       LET wid == well_id(w[1], w[2])
       IN /\ HasWell(setup.wells, wid)
          /\ IF on_save_rejects(entries, setup.max_vol)
             THEN /\ setup' = setup
                  /\ calls' = Append(calls, Tag(<<"on_save", "showerror">>))
             ELSE /\ setup' = [setup EXCEPT
                                 !.wells = save_volumes(@, wid, new_vols_of(entries))]
                  /\ calls' = Append(calls, Tag(<<"on_save", "saved">>))
  /\ pc' = "editing"
  /\ UNCHANGED <<variant, plan, reservoirs, sources_order, overdraw_uL, pumpConnected,
                 moverConnected, ser, order, by_fluid, fi, wi, todo, phase, line,
                 pumpCmds, cycles, result, missing>>

\* begin_dosing: every well is checked against the maximum; with an offending
\* well an error is shown, otherwise the plan is built and send_to_backend called
GUI_BeginDosing ==
  /\ variant = "planner" /\ Len(calls) < MaxEvents
  /\ IF begin_dosing_errors(setup.wells, setup.max_vol) # {}
     THEN /\ calls' = Append(calls, Tag(<<"begin_dosing", "showerror">>))
          /\ pc' = "editing" /\ UNCHANGED plan
     ELSE /\ calls' = Append(calls, Tag(<<"begin_dosing", "send_to_backend">>))
          /\ plan' = build_dosing_plan(setup.wells) /\ pc' = "built"
  /\ UNCHANGED <<variant, reservoirs, sources_order, overdraw_uL, setup, pumpConnected,
                 moverConnected, ser, order, by_fluid, fi, wi, todo, phase, line,
                 pumpCmds, cycles, result, missing>>

NextPlanner ==
  GUI_PlateChanged \/ GUI_MaxChanged \/ Model_SetSources \/ GUI_SaveWell \/ GUI_BeginDosing

SpecPlanner == InitPlanner /\ [][NextPlanner]_vars

----------------------------------------------------------------------------
(* Vocabulary of the properties *)

IsPrefix(a, b) == Len(a) <= Len(b) /\ SubSeq(b, 1, Len(a)) = a
Drop(s, i) == [j \in 1..(Len(s) - 1) |-> IF j < i THEN s[j] ELSE s[j + 1]]
Terminated == pc = "exit"
Executor == variant = "DosingExecutor"
RunDosing == variant = "run_dosing"

\* The call issued last, and the cycle it was issued in (0 before the first).
LastCall == calls[Len(calls)].c
LastCallCycle == IF calls = << >> THEN 0 ELSE calls[Len(calls)].cyc
IsConnect(c) == c[1] \in {"pump.connect", "mover.connect"}
\* Calls are only ever appended and a cycle's calls are issued while it is the
\* last cycle: what holds, in every state, of the cycle under way and of the one
\* that has just ended holds of every cycle.
CyclesInView ==
  IF cycles = << >> THEN {}
  ELSE IF LastCallCycle < Len(cycles) THEN { k \in {Len(cycles) - 1} : k >= 1 }
  ELSE {Len(cycles)}

\* The calls issued during cycle k, in order.
CallsOf(k) ==
  LET sel == SelectSeq(calls, LAMBDA r : r.cyc = k)
  IN [i \in 1..Len(sel) |-> sel[i].c]
\* Everything issued so far with a given operation name.
CallsNamed(op) == SelectSeq(calls, LAMBDA r : r.c[1] = op)

\* Cycle k has run to its end (normally, or by the exception of its withdraw call);
\* a cycle cut short by a failing port or driver has not.
CycleOver(k) ==
  \/ k < Len(cycles)
  \/ Executor /\ todo = << >> /\ pc \in {"wells", "loop", "exit"} /\ result # "DriverError"
  \/ RunDosing /\ result = "TypeError"

\* Labels with a positive volume in some well, and the (well, fluid) pairs to dose.
NeededLabels == { l \in Labels : \E i \in 1..Len(plan) : Get(plan[i].volumes_uL, l, 0) > 0 }
PairsOf(l) == { i \in 1..Len(plan) : Get(plan[i].volumes_uL, l, 0) > 0 }
Pairs == { <<i, l>> \in (1..Len(plan)) \X Labels : i \in PairsOf(l) }

\* The step of the per-well cycle that a call of DosingExecutor performs for cycle cy.
StepOf(c, cy) ==
  LET res == source_positions(cy.lab)
      wx == setup.layout.a1_x_mm + cy.col * setup.layout.col_pitch_mm
      wy == IF setup.layout.y_positive_down
            THEN setup.layout.a1_y_mm + cy.row * setup.layout.row_pitch_mm
            ELSE setup.layout.a1_y_mm - cy.row * setup.layout.row_pitch_mm
  IN CASE c[1] = "go_to_z" ->
            (IF c[2] = res.z_clear_mm THEN "Z_RESERVOIR_CLEAR"
             ELSE IF c[2] = res.z_aspirate_mm THEN "Z_ASPIRATE"
             ELSE IF c[2] = plate_clear_z_mm THEN "Z_PLATE_CLEAR"
             ELSE IF c[2] = plate_dispense_z_mm THEN "Z_DISPENSE"
             ELSE "OTHER")
       [] c[1] = "go_to_xy" ->
            (IF <<c[2], c[3]>> = <<res.x_mm, res.y_mm>> THEN "XY_RESERVOIR"
             ELSE IF <<c[2], c[3]>> = <<wx, wy>> THEN "XY_WELL"
             ELSE "OTHER")
       [] c[1] = "swirly" ->
            (IF <<c[2], c[3], c[4]>> = <<res.x_mm, res.y_mm, res.z_clear_mm>> THEN "SWIRL"
             ELSE "OTHER")
       [] c[1] = "withdraw" -> "WITHDRAW"
       [] c[1] = "infuse" -> "INFUSE"
       [] c[1] = "dwell" -> "DWELL"
       [] OTHER -> "OTHER"

\* The step that an instruction written by run_dosing performs for cycle cy.
StepOfGcode(c, cy) ==
  CASE c[1] = "G1_Z" ->
         (IF c[2] = TRAVEL_Z THEN "Z_CLEAR"
          ELSE IF c[2] = ASPIRATE_Z THEN "Z_ASPIRATE" ELSE "OTHER")
    [] c[1] = "G1_XY" ->
         (IF <<c[2], c[3]>> = FLUID_RESERVOIRS(cy.lab) THEN "XY_RESERVOIR" ELSE "XY_OTHER")
    [] c[1] = "M400" -> "BARRIER"
    [] OTHER -> "OTHER"

StepsOf(k) ==
  LET cs == CallsOf(k)
  IN [i \in 1..Len(cs) |->
        IF Executor THEN StepOf(cs[i], cycles[k]) ELSE StepOfGcode(cs[i], cycles[k])]

\* The thirteen states of the per-well cycle, in the order the claim lists them.
ClaimedCycle ==
  << "Z_RESERVOIR_CLEAR", "XY_RESERVOIR", "Z_ASPIRATE", "WITHDRAW", "DWELL",
     "Z_RESERVOIR_CLEAR", "SWIRL", "Z_PLATE_CLEAR", "XY_WELL", "Z_DISPENSE", "INFUSE",
     "DWELL", "Z_PLATE_CLEAR" >>

\* The same with each dwell present only when its delay is positive.
CycleWithDelays(cfg) ==
  LET a == IF cfg.delay_after_dispense_s > 0 THEN ClaimedCycle ELSE Drop(ClaimedCycle, 12)
  IN IF cfg.delay_after_withdraw_s > 0 THEN a ELSE Drop(a, 5)

\* What run_dosing writes in a cycle before its withdraw call raises.
RunDosingCycle ==
  << "Z_CLEAR", "BARRIER", "XY_RESERVOIR", "BARRIER", "Z_CLEAR", "BARRIER",
     "Z_ASPIRATE", "BARRIER" >>

\* run_dosing's instructions without the barriers, in the claim's vocabulary
ClaimedSteps(k) ==
  IF Executor THEN StepsOf(k)
  ELSE LET nb == SelectSeq(StepsOf(k), LAMBDA x : x # "BARRIER")
       IN [i \in 1..Len(nb) |-> IF nb[i] = "Z_CLEAR" THEN "Z_RESERVOIR_CLEAR" ELSE nb[i]]

----------------------------------------------------------------------------
(* C1 *)

----------------------------------------------------------------------------
(* C2 *)

\* The volumes the pump driver was commanded to withdraw and to infuse, in order
\* (a duration commanded at flow rate r is the volume duration * r).
PumpVolumesOf(ops) ==
  LET sel == SelectSeq(pumpCmds, LAMBDA c : c[1] \in ops)
  IN [i \in 1..Len(sel) |->
        IF sel[i][1] \in {"withdrawDuration", "infuseDuration"}
        THEN sel[i][2] * DefaultFlowRate ELSE sel[i][2]]
PumpWithdrawn == PumpVolumesOf({"withdraw", "withdrawDuration"})
PumpInfused == PumpVolumesOf({"infuse", "infuseDuration"})

\* The orchestrator has made the withdraw (infuse) call of cycle k.
WithdrawCalled(k) ==
  \/ Executor /\ \E i \in 1..Len(CallsOf(k)) : CallsOf(k)[i][1] = "withdraw"
  \/ RunDosing /\ CycleOver(k)
InfuseCalled(k) ==
  Executor /\ \E i \in 1..Len(CallsOf(k)) : CallsOf(k)[i][1] = "infuse"

\* C2 as stated: once the withdraw call of a cycle with requested volume v has been
\* made, the pump has been commanded to withdraw v + overdraw + calibration offset,
\* and once its infuse call has been made, to infuse v + calibration offset.
C2_AsStated ==
  \A k \in 1..Len(cycles) :
    /\ WithdrawCalled(k) =>
         /\ Len(PumpWithdrawn) >= k
         /\ PumpWithdrawn[k] = cycles[k].v + overdraw_uL + WithdrawCalOffset
    /\ InfuseCalled(k) =>
         /\ Len(PumpInfused) >= k
         /\ PumpInfused[k] = cycles[k].v + InfuseCalOffset

----------------------------------------------------------------------------
(* C3 *)

OffsetOf(op) == IF op = "withdraw" THEN WithdrawCalOffset ELSE InfuseCalOffset

\* C3: after any sequence of withdraw and infuse calls, the k-th call has commanded
\* the pump for exactly the volume it was passed plus one calibration offset,
\* whatever k is and whatever was called before; two calls passed the same volume
\* command the same volume.
C3_NoCompounding ==
  /\ Len(pumpCmds) = 2 * Len(calls)
  /\ \A k \in 1..Len(calls) :
       LET passed == calls[k].c
           rate == pumpCmds[2 * k - 1]
           cmd == pumpCmds[2 * k]
       IN /\ cmd[1] = (IF passed[1] = "withdraw" THEN "withdrawDuration" ELSE "infuseDuration")
          /\ cmd[2] * rate[2] - passed[2] = OffsetOf(passed[1])
  /\ \A j, k \in 1..Len(calls) :
       calls[j].c = calls[k].c => pumpCmds[2 * j] = pumpCmds[2 * k]

\* Three calls or more, the third repeating the first, with a withdraw and an
\* infuse among them.
C3_Witness ==
  /\ variant = "pump" /\ Len(calls) >= 3
  /\ calls[1].c = calls[3].c /\ calls[1].c[2] > 0
  /\ \E i, j \in 1..Len(calls) : calls[i].c[1] = "withdraw" /\ calls[j].c[1] = "infuse"

----------------------------------------------------------------------------
(* C4 *)

Failed ==
  result \in {"ValueError", "TypeError", "SerialException", "DriverError", "AttributeError"}

\* C4 as stated: when a fluid with a positive volume somewhere in the plan has no
\* reservoir, no hardware call of any kind is ever issued, no cycle is started,
\* and the run ends in an error.
C4_AsStated ==
  (NeededLabels \ reservoirs # {}) =>
    /\ calls = << >>
    /\ cycles = << >>
    /\ Terminated => Failed

----------------------------------------------------------------------------
(* C5 *)

Range(s) == { s[i] : i \in 1..Len(s) }
NoDuplicates(s) == \A i, j \in 1..Len(s) : i # j => s[i] # s[j]

\* C5: once run_dosing has validated, it has failed with ValueError exactly when
\* some label with a positive volume has no reservoir, and the reported list then
\* holds each such label once and no other label.
C5_MissingExact ==
  (RunDosing /\ pc \notin {"main", "run_dosing"}) =>
    IF NeededLabels \ reservoirs # {}
    THEN /\ result = "ValueError"
         /\ Range(missing) = NeededLabels \ reservoirs
         /\ NoDuplicates(missing)
    ELSE result # "ValueError" /\ missing = << >>

\* A failure that reports two labels while a third, needed one has a reservoir.
C5_Witness ==
  /\ result = "ValueError" /\ Len(missing) = 2
  /\ NeededLabels \cap reservoirs # {}

----------------------------------------------------------------------------
(* C6 *)

OverMax == \E i \in 1..Len(plan) : SumVolumes(plan[i].volumes_uL) > max_well_volume

\* C6 as stated: a plan with a well whose summed volume exceeds the maximum makes
\* the run end in an error with no hardware call issued.
C6_AsStated ==
  OverMax => /\ calls = << >>
             /\ Terminated => Failed

----------------------------------------------------------------------------
(* C7 *)

WellLess(a, b) == a.row < b.row \/ (a.row = b.row /\ a.col < b.col)

\* The cycles of each fluid are contiguous and visit its wells in strictly
\* ascending (row, col) order.
FluidsContiguousAndAscending ==
  \A i, j \in 1..Len(cycles) :
    (i < j /\ cycles[i].lab = cycles[j].lab) =>
      /\ WellLess(cycles[i], cycles[j])
      /\ \A m \in i..j : cycles[m].lab = cycles[i].lab

\* C7 as stated
C7_AsStated == FluidsContiguousAndAscending

\* C7 (amended): every well list of the grouping is in strictly ascending
\* (row, col) order, and when the processing order names no label twice the
\* cycles of each fluid are contiguous and visit its wells in that order.
C7_NoInterleaving ==
  /\ \A g \in 1..Len(by_fluid) :
       \A i, j \in 1..Len(by_fluid[g].wells) :
         i < j => WellLess(by_fluid[g].wells[i], by_fluid[g].wells[j])
  /\ NoDuplicates(order) => FluidsContiguousAndAscending

\* A completed run over a plan listed against row-major order, with two cycles of
\* one fluid and a cycle of another.
C7_Witness ==
  /\ Executor /\ result = "complete" /\ NoDuplicates(order)
  /\ Len(plan) = 2 /\ WellLess(plan[2], plan[1])
  /\ \E i, j, m \in 1..Len(cycles) :
       i < j /\ cycles[i].lab = cycles[j].lab /\ cycles[m].lab # cycles[i].lab

----------------------------------------------------------------------------
(* C8 *)

\* The number of cycles for label l started before cycle k.
DosedBefore(l, k) == Cardinality({ m \in 1..(k - 1) : cycles[m].lab = l })

\* Fluids are processed in ascending label order: cycle labels never descend, and
\* when a cycle starts every lower label that is needed and has a reservoir has
\* had all its wells dosed.
AscendingProcessing ==
  /\ \A i, j \in 1..Len(cycles) :
       i < j => Rank(cycles[i].lab) <= Rank(cycles[j].lab)
  /\ \A k \in 1..Len(cycles) :
       \A l \in NeededLabels \cap reservoirs :
         Rank(l) < Rank(cycles[k].lab) => DosedBefore(l, k) = Cardinality(PairsOf(l))

\* The place <<entry, item>> at which label l first has a positive volume in the plan.
PositivePlaces(l) ==
  { <<i, j>> \in (1..Len(plan)) \X (1..3) :
      /\ j <= Len(plan[i].volumes_uL)
      /\ plan[i].volumes_uL[j].lab = l
      /\ plan[i].volumes_uL[j].v > 0 }
PlaceLess(a, b) == a[1] < b[1] \/ (a[1] = b[1] /\ a[2] < b[2])
AppearsBefore(l1, l2) ==
  \E a \in PositivePlaces(l1) : \A b \in PositivePlaces(l2) : PlaceLess(a, b)

----------------------------------------------------------------------------
(* C9 *)

OrderCovers == NeededLabels \subseteq (reservoirs \cap Range(order))
OrderOnce ==
  \A l \in NeededLabels : Cardinality({ i \in 1..Len(order) : order[i] = l }) = 1
CountsMatch ==
  /\ result \in {"complete", "returned"}
  /\ Len(cycles) = Cardinality(Pairs)
  /\ Len(CallsNamed("withdraw")) = Cardinality(Pairs)
  /\ Len(CallsNamed("infuse")) = Cardinality(Pairs)

----------------------------------------------------------------------------
(* C10 *)

\* The reply line, leading whitespace aside, begins with the characters o, k.
BeginsWithOk(raw) ==
  \E i \in 1..Len(raw) :
    /\ \A j \in 1..(i - 1) : raw[j] \in Whitespace
    /\ i < Len(raw) /\ raw[i] = "o" /\ raw[i + 1] = "k"

\* A step taken while a written command awaits its reply.
ReplyStep == phase = "wait" /\ (line' # line \/ todo' # todo \/ phase' # phase)

\* C10: a command stops waiting, so that the next one can be written, only on
\* reading a reply line that begins with "ok"; a line that is empty or begins
\* otherwise leaves the command waiting and nothing further is written.
C10_OkOnly ==
  [][ReplyStep =>
       /\ BeginsWithOk(line') <=> (phase' = "idle" /\ todo' = Tail(todo))
       /\ ~BeginsWithOk(line') => (phase' = "wait" /\ todo' = todo)
       /\ calls' = calls]_vars

\* A command has returned on a reply that carries text after the "ok".
C10_Witness ==
  /\ RunDosing /\ phase = "idle" /\ calls # << >>
  /\ BeginsWithOk(line) /\ Len(line) > 3

----------------------------------------------------------------------------
(* C11 *)

IsMove(c) == c[1] \in {"G1_Z", "G1_XY"}
\* The orchestrator has made a withdraw or infuse call.
PumpStarted == result = "TypeError" \/ pumpCmds # << >>

\* C11: in run_dosing every G1 instruction that has been followed by anything has
\* been followed by the barrier M400, and a withdraw or infuse call is made only
\* when the last instruction sent is a barrier whose "ok" has been read.
C11_BarrierAfterMove ==
  RunDosing =>
    /\ \A i \in 1..(Len(calls) - 1) : IsMove(calls[i].c) => calls[i + 1].c = M400
    /\ PumpStarted =>
         /\ calls # << >> /\ LastCall = M400
         /\ phase = "idle" /\ BeginsWithOk(line)

\* The withdraw call has been made after the XY move to the reservoir and the
\* descent, each with its barrier.
C11_Witness ==
  /\ RunDosing /\ PumpStarted
  /\ \E i, j \in 1..Len(calls) :
       i < j /\ calls[i].c[1] = "G1_XY" /\ calls[j].c = G1_Z(ASPIRATE_Z, F_Z)

----------------------------------------------------------------------------
(* C12 *)

\* C12: an instruction is written, or a pump call made, only when every
\* instruction written before has had its "ok" read: the line last read since the
\* previous write begins with "ok" and no call is waiting.
C12_OneInFlight ==
  [][(RunDosing /\ (Len(calls') > Len(calls) \/ (PumpStarted' /\ ~PumpStarted))) =>
       /\ phase = "idle"
       /\ calls # << >> => BeginsWithOk(line)]_vars

\* A second instruction is in flight, alone, and a line that is not an
\* acknowledgment has been read for it.
C12_Witness ==
  /\ RunDosing /\ Len(calls) >= 2 /\ phase = "wait"
  /\ line # << >> /\ ~BeginsWithOk(line)

----------------------------------------------------------------------------
(* C13 *)

\* Home all axes, millimetre units, absolute positioning, Z speed ceiling, then
\* the lift to the travel height and its barrier.
ClaimedStartup ==
  << <<"G28">>, <<"G21">>, <<"G90">>, <<"M203_Z", 1200>>,
     <<"G1_Z", TRAVEL_Z, F_Z>>, <<"M400">> >>

----------------------------------------------------------------------------
(* C14 *)

\* The run has ended on a failure of the port before any per-well cycle.
StartupFailed == RunDosing /\ cycles = << >> /\ result = "SerialException"
StartupAttempts == Len(SelectSeq(calls, LAMBDA r : r.c = <<"G28">>))

\* C14 as stated: a run that ends on a failing startup has made a second attempt
\* at the startup sequence and ends with CommunicationError.
C14_AsStated ==
  StartupFailed => (result = "CommunicationError" /\ StartupAttempts = 2)

----------------------------------------------------------------------------
(* C15 *)

\* C15 as stated: a command that waits for its acknowledgment eventually stops
\* waiting, either on an "ok" or by failing with CommunicationError.
C15_AsStated ==
  (RunDosing /\ phase = "wait") ~> (phase = "idle" \/ result = "CommunicationError")

----------------------------------------------------------------------------
(* C16 *)

\* The mover's transport has been opened, and closed, by calls of the run.
MoverOpened == \E i \in 1..Len(calls) : calls[i].c[1] = "mover.connect"
MoverCloses ==
  Len(SelectSeq(calls, LAMBDA r : r.c[1] \in {"mover.close", "mover.disconnect"}))

\* C16 as stated: when a run has ended, a transport that it opened is closed, and
\* was closed once.
C16_AsStated ==
  Terminated =>
    /\ (RunDosing /\ ser # "unopened") => ser = "closed"
    /\ (Executor /\ MoverOpened) => MoverCloses = 1

----------------------------------------------------------------------------
(* C17 *)

HardwareFailed == result \in {"SerialException", "DriverError", "TypeError"}

\* C17: once a call on the port, the mover or the pump has raised, no instruction
\* is sent, no mover or pump call is made, no cycle is started and the failure
\* stays the outcome of the run.
C17_FailureIsFatal ==
  [][HardwareFailed =>
       /\ calls' = calls /\ pumpCmds' = pumpCmds
       /\ cycles' = cycles /\ result' = result
       /\ fi' = fi /\ wi' = wi]_vars

\* A run of run_dosing that has ended on a failure in its first cycle, with wells
\* left undosed.
C17_Witness ==
  /\ RunDosing /\ Terminated /\ HardwareFailed
  /\ Len(cycles) = 1 /\ Cardinality(Pairs) >= 2

----------------------------------------------------------------------------
(* C18 *)

IsXY(c) == c[1] \in {"G1_XY", "go_to_xy", "swirly"}
IsZ(c) == c[1] \in {"G1_Z", "go_to_z"}
\* The heights at which the head clears reservoirs and plate.
ClearHeights == IF RunDosing THEN {TRAVEL_Z} ELSE {z_clear_mm, plate_clear_z_mm}
\* The Z move last issued before call i is call j.
LastZBefore(i, j) ==
  /\ j < i /\ IsZ(calls[j].c)
  /\ \A m \in (j + 1)..(i - 1) : ~IsZ(calls[m].c)

\* C18: every XY move (to a reservoir, to a well, or a swirl) is issued with a Z
\* move before it, the last of which went to a clear height; a swirl is made at
\* that height; in run_dosing the instruction before an XY move, and before a
\* descent, is an acknowledged barrier.  Stated of the call issued last: every
\* call is the last one in the state that its issue leads to.
C18_TravelAtClearHeight ==
  calls # << >> =>
    LET i == Len(calls)
    IN /\ IsXY(calls[i].c) =>
            /\ \E j \in 1..(i - 1) : LastZBefore(i, j) /\ calls[j].c[2] \in ClearHeights
            /\ calls[i].c[1] = "swirly" =>
                 \E j \in 1..(i - 1) : LastZBefore(i, j) /\ calls[j].c[2] = calls[i].c[4]
            /\ RunDosing => (i > 2 /\ calls[i - 1].c = M400 /\ IsZ(calls[i - 2].c))
       /\ (RunDosing /\ IsZ(calls[i].c) /\ calls[i].c[2] \notin ClearHeights) =>
            (i > 2 /\ calls[i - 1].c = M400)

\* A completed run of two cycles or more: the head has travelled from a reservoir
\* to a well and from the well to a reservoir.
C18_Witness ==
  /\ Executor /\ result = "complete" /\ Len(cycles) >= 2
  /\ \E i \in 1..Len(CallsOf(2)) : CallsOf(2)[i][1] = "go_to_xy"

----------------------------------------------------------------------------
(* C19 *)

\* Cycle k holds exactly one swirl, centred on the reservoir of its fluid at the
\* reservoir clear height, after the withdraw and the ascent that follows it and
\* before the move to the well.
SwirlOnceAboveReservoir(k) ==
  LET cs == CallsOf(k)
      res == source_positions(cycles[k].lab)
      sw == { i \in 1..Len(cs) : cs[i][1] = "swirly" }
  IN /\ Cardinality(sw) = 1
     /\ \A i \in sw :
          /\ cs[i][2] = res.x_mm /\ cs[i][3] = res.y_mm /\ cs[i][4] = res.z_clear_mm
          /\ \E w \in 1..(i - 1) : cs[w][1] \in {"withdraw", "withdrawDuration"}
          /\ i > 1 /\ IsZ(cs[i - 1]) /\ cs[i - 1][2] = res.z_clear_mm
          /\ \A m \in 1..(i - 1) : IsXY(cs[m]) => (cs[m][2] = res.x_mm /\ cs[m][3] = res.y_mm)
          /\ \E m \in (i + 1)..Len(cs) : IsXY(cs[m])

\* C19 as stated: every cycle that has run to its end holds such a swirl.
C19_AsStated == \A k \in 1..Len(cycles) : CycleOver(k) => SwirlOnceAboveReservoir(k)

----------------------------------------------------------------------------
(* C20 *)

ClaimedX == setup.layout.a1_x_mm + setup.col * setup.layout.col_pitch_mm
ClaimedY ==
  IF setup.layout.y_positive_down
  THEN setup.layout.a1_y_mm + setup.row * setup.layout.row_pitch_mm
  ELSE setup.layout.a1_y_mm - setup.row * setup.layout.row_pitch_mm

\* C20 as stated: each of the two conversions returns x = a1_x + col * col_pitch
\* and y = a1_y + row * row_pitch, or a1_y - row * row_pitch when y_positive_down
\* is false.
C20_AsStated ==
  \A i \in 1..Len(calls) : calls[i].c[2] = ClaimedX /\ calls[i].c[3] = ClaimedY

\* C20 (amended): _well_xy_mm returns that; well_to_xy returns the same x and
\* y = a1_y + row * row_pitch whatever the direction of the layout's Y axis.
C20_Conversion ==
  \A i \in 1..Len(calls) :
    /\ calls[i].c[2] = ClaimedX
    /\ calls[i].c[1] = "well_xy_mm" => calls[i].c[3] = ClaimedY
    /\ calls[i].c[1] = "well_to_xy" =>
         calls[i].c[3] = setup.layout.a1_y_mm + setup.row * setup.layout.row_pitch_mm

\* Both conversions applied to a row below the first on a layout whose Y
\* decreases with the row: the results differ.
C20_Witness ==
  /\ variant = "convert" /\ Len(calls) = 2
  /\ ~setup.layout.y_positive_down /\ setup.row > 0 /\ setup.col > 0
  /\ calls[1].c[3] # calls[2].c[3]

----------------------------------------------------------------------------
(* C21 *)

\* The inverse of x = a1 + index * pitch.
Recover(v, a1, pitch) == (v - a1) \div pitch
Exact(v, a1, pitch) == (v - a1) % pitch = 0
\* The (row, col) recovered from what a conversion returned: _well_xy_mm counts
\* the rows along the layout's Y direction, well_to_xy along increasing Y.
RecoveredWell(c) ==
  LET l == setup.layout
      dy == IF c[1] = "well_xy_mm" /\ ~l.y_positive_down
            THEN l.a1_y_mm - c[3] ELSE c[3] - l.a1_y_mm
  IN << Recover(dy, 0, l.row_pitch_mm), Recover(c[2], l.a1_x_mm, l.col_pitch_mm) >>
\* What the conversion named fn returns for another well of the same layout.
ConvertWith(fn, row, col) ==
  LET l == setup.layout
  IN IF fn = "well_xy_mm" THEN well_xy_mm(row, col, l)
     ELSE well_to_xy(row, col, l.a1_x_mm, l.a1_y_mm, l.col_pitch_mm, l.row_pitch_mm)

\* C21: for each layout (all have positive pitches) and each (row, col), inverting
\* the pitch/origin formula on the XY that a conversion returned gives back
\* (row, col) exactly, and no other well of the plate converts to that XY.
C21_RoundTrip ==
  \A i \in 1..Len(calls) :
    LET c == calls[i].c
        l == setup.layout
    IN /\ l.col_pitch_mm > 0 /\ l.row_pitch_mm > 0
       /\ Exact(c[2], l.a1_x_mm, l.col_pitch_mm) /\ Exact(c[3], l.a1_y_mm, l.row_pitch_mm)
       /\ RecoveredWell(c) = << setup.row, setup.col >>
       /\ \A r \in 0..MaxRow, k \in 0..MaxCol :
            ConvertWith(c[1], r, k) = << c[2], c[3] >> => << r, k >> = << setup.row, setup.col >>

\* Both conversions applied to a well off the diagonal and off the first row
\* and column.
C21_Witness ==
  /\ variant = "convert" /\ Len(calls) = 2
  /\ setup.row > 0 /\ setup.col > 0 /\ setup.row # setup.col

----------------------------------------------------------------------------
(* C22 *)

\* The raw entry carries row, column and a fluid-to-volume mapping.
CarriesMapping(e) == IsDict(e) /\ HasKeys(e) /\ IsMapping(e.volumes_uL)
\* What _parse_plan returned.
Parsed == calls[Len(calls)].c[2]

\* C22 as stated: the parse returns (it never fails), and what it returns is the
\* subsequence, in order and with nothing repeated, of the raw entries that carry
\* row, column and a fluid-to-volume mapping.
C22_AsStated ==
  (variant = "parse" /\ calls # << >>) =>
    /\ result = "returned"
    /\ Parsed = (IF setup.decodes THEN SelectSeq(plan, CarriesMapping) ELSE << >>)

----------------------------------------------------------------------------
(* C23 *)

\* Row and column are non-negative integers and no volume is negative.
ValidValues(e) ==
  /\ e.row >= 0 /\ e.col >= 0
  /\ \A i \in 1..Len(e.volumes_uL) : e.volumes_uL[i].v >= 0

\* C23 as stated: no entry with a negative row, column or volume is among the
\* entries that the run has grouped for dosing, and no cycle (hence no move and
\* no pump call) is for a well of negative row or column.
C23_AsStated ==
  /\ \A g \in 1..Len(by_fluid) :
       \A i \in 1..Len(by_fluid[g].wells) : ValidValues(by_fluid[g].wells[i])
  /\ \A k \in 1..Len(cycles) : cycles[k].row >= 0 /\ cycles[k].col >= 0

----------------------------------------------------------------------------
(* C24 *)

NumCalls(op) == Len(CallsNamed(op))
\* The connect() calls made on a driver; they are looked for among the first two
\* calls of the run, C24 stating that no later call is a connect.
Connects(op) == Cardinality({ j \in 1..Len(calls) : j <= 2 /\ calls[j].c[1] = op })

\* C24: in DosingExecutor.run connect() is called on a driver at most once, and
\* only on one that was not connected when the run was entered; once a motion or
\* pump call has been made both drivers are connected, connect() has been called
\* on each one that was not connected at entry, and every connect came before
\* the first other call.  Stated of the call issued last: every call is the last
\* one in the state that its issue leads to.
C24_ConnectIfNot ==
  Executor =>
    /\ Connects("pump.connect") <= (IF setup.entry.pump THEN 0 ELSE 1)
    /\ Connects("mover.connect") <= (IF setup.entry.mover THEN 0 ELSE 1)
    /\ pumpConnected = (setup.entry.pump \/ Connects("pump.connect") = 1)
    /\ moverConnected = (setup.entry.mover \/ Connects("mover.connect") = 1)
    /\ (calls # << >> /\ IsConnect(LastCall)) =>
         \A j \in 1..Len(calls) : IsConnect(calls[j].c)
    /\ (calls # << >> /\ ~IsConnect(LastCall)) => (pumpConnected /\ moverConnected)

\* A run entered with the pump connected and the mover not: the mover alone has
\* been connected and a withdraw has been made.
C24_Witness ==
  /\ Executor /\ setup.entry.pump /\ ~setup.entry.mover
  /\ Connects("mover.connect") = 1 /\ Connects("pump.connect") = 0
  /\ NumCalls("withdraw") >= 1

----------------------------------------------------------------------------
(* C25 *)

\* The Z move issued last went to a clear height.
StageAtClearHeight ==
  \E j \in 1..Len(calls) :
    /\ IsZ(calls[j].c) /\ calls[j].c[2] \in ClearHeights
    /\ \A m \in (j + 1)..Len(calls) : ~IsZ(calls[m].c)
\* A pump stroke has been commanded and nothing was issued after it.
PumpMidStroke == calls # << >> /\ LastCall[1] \in {"withdraw", "infuse"}

\* C25 as stated: a run that has ended on a user interrupt has the stage last
\* commanded to the clear height and the pump not left in a stroke.
C25_AsStated ==
  (result = "KeyboardInterrupt" /\ Terminated) => (StageAtClearHeight /\ ~PumpMidStroke)

----------------------------------------------------------------------------
(* C26 *)

\* The wells of the current plate at (row, col).
WellsAt(row, col) ==
  { i \in 1..Len(setup.wells) : setup.wells[i].row = row /\ setup.wells[i].col = col }

----------------------------------------------------------------------------
(* C27 *)

\* The XY and the Z commanded last before call i (a swirl circles around, and
\* ends at, the XY it is given).
LastIndexBefore(i, Is(_)) ==
  CHOOSE j \in 0..(i - 1) :
    /\ j > 0 => Is(calls[j].c)
    /\ \A m \in (j + 1)..(i - 1) : ~Is(calls[m].c)
XYBefore(i) ==
  LET j == LastIndexBefore(i, IsXY)
  IN IF j = 0 THEN << >> ELSE << calls[j].c[2], calls[j].c[3] >>
ZBefore(i) ==
  LET j == LastIndexBefore(i, IsZ)
  IN IF j = 0 THEN << >> ELSE << calls[j].c[2] >>
\* The machine XY of the well of the current cycle, by the layout's formula.
CurWellXY ==
  LET l == setup.layout
  IN << l.a1_x_mm + Cur.col * l.col_pitch_mm,
        IF l.y_positive_down THEN l.a1_y_mm + Cur.row * l.row_pitch_mm
        ELSE l.a1_y_mm - Cur.row * l.row_pitch_mm >>

\* C27: a withdraw is issued with the last commanded XY at the reservoir of the
\* cycle's fluid and the last commanded Z at the aspirate height; an infuse with
\* the last commanded XY at the machine XY of the cycle's well and the last
\* commanded Z at the dispense height.  Stated of the call issued last (every
\* call is the last one in the state that its issue leads to) and, for
\* run_dosing, of the state in which its withdraw call has been made.
C27_PumpAtRightPlace ==
  /\ (Executor /\ calls # << >> /\ LastCall[1] = "withdraw") =>
       LET res == source_positions(Cur.lab)
       IN /\ XYBefore(Len(calls)) = << res.x_mm, res.y_mm >>
          /\ ZBefore(Len(calls)) = << res.z_aspirate_mm >>
  /\ (Executor /\ calls # << >> /\ LastCall[1] = "infuse") =>
       /\ XYBefore(Len(calls)) = CurWellXY
       /\ ZBefore(Len(calls)) = << plate_dispense_z_mm >>
  /\ (RunDosing /\ PumpStarted) =>
       /\ XYBefore(Len(calls) + 1) = FLUID_RESERVOIRS(Cur.lab)
       /\ ZBefore(Len(calls) + 1) = << ASPIRATE_Z >>

\* The infuse of a second cycle has just been issued, into a well below the
\* first row of a layout whose Y decreases with the row.
C27_Witness ==
  /\ Executor /\ Len(cycles) >= 2 /\ calls # << >> /\ LastCall[1] = "infuse"
  /\ Cur.row > 0 /\ ~setup.layout.y_positive_down

----------------------------------------------------------------------------
(* C28 *)

RECURSIVE SumSeq(_)
SumSeq(q) == IF q = << >> THEN 0 ELSE Head(q) + SumSeq(Tail(q))
\* The pump calls made so far: those that reached the pump driver and, in
\* run_dosing, the withdraw call that raised before the pump was commanded.
NumPumpCalls == Len(pumpCmds) + (IF RunDosing /\ result = "TypeError" THEN 1 ELSE 0)

\* C28: the pump calls of a run alternate, the first being a withdraw, and the
\* pump has never been commanded to infuse more in total than it has been
\* commanded to withdraw.  In DosingExecutor.run the k-th pump call is the k-th
\* command of the pump driver; the call issued last, when it is a pump call, is
\* the command received last.
C28_AlternateAndNonNegative ==
  (Executor \/ RunDosing) =>
    /\ \A i \in 1..Len(pumpCmds) :
         pumpCmds[i][1] = (IF i % 2 = 1 THEN "withdraw" ELSE "infuse")
    /\ RunDosing => NumPumpCalls <= 1
    /\ (Executor /\ calls # << >> /\ LastCall[1] \in {"withdraw", "infuse"}) =>
         /\ pumpCmds # << >>
         /\ pumpCmds[Len(pumpCmds)][1] = LastCall[1]
    /\ SumSeq(PumpInfused) <= SumSeq(PumpWithdrawn)

\* Three cycles done: three withdraws and three infuses have been commanded.
C28_Witness ==
  /\ Executor /\ Len(PumpWithdrawn) = 3 /\ Len(PumpInfused) = 3
  /\ SumSeq(PumpInfused) > 0

----------------------------------------------------------------------------
(* C29 *)

\* C29: when no volume of the plan is positive, the run issues nothing but the
\* connection of the drivers (no startup instruction, no move, no barrier, no
\* pump call), begins no cycle, and ends by returning normally.  Stated of the
\* call issued last: every call is the last one in the state that its issue
\* leads to.
C29_NothingToDose ==
  ((Executor \/ RunDosing) /\ NeededLabels = {}) =>
    /\ calls # << >> => IsConnect(LastCall)
    /\ RunDosing => calls = << >>
    /\ pumpCmds = << >> /\ cycles = << >> /\ todo = << >>
    /\ result \in {"running", "returned", "complete"}
    /\ Terminated => result \in {"returned", "complete"}

\* run_dosing has returned on a plan that has a well and only zero volumes.
C29_Witness ==
  /\ RunDosing /\ Terminated /\ result = "returned"
  /\ plan # << >> /\ NeededLabels = {}

----------------------------------------------------------------------------
(* C30 *)

\* How often label l stands in the explicit processing order.
Occurrences(l) ==
  Cardinality({ k \in 1..Len(sources_order.seq) : sources_order.seq[k] = l })
\* The cycles begun for fluid l into the well of plan entry i.
CyclesFor(i, l) ==
  Cardinality({ k \in 1..Len(cycles) :
                  /\ cycles[k].lab = l
                  /\ cycles[k].row = plan[i].row /\ cycles[k].col = plan[i].col })
ExpectedCycles(l) == IF l \in reservoirs THEN Occurrences(l) ELSE 0

\* C30: in DosingExecutor.run with an explicit order, the cycles begun for a
\* (well, fluid) pair with a positive volume never exceed the occurrences of the
\* fluid's label in the order (none without a reservoir; stated of the pair of
\* the cycle begun last), and equal them when the run has completed; every
\* cycle is for such a pair; so a completed run has
\* dosed every pair exactly once only if every needed label has a reservoir and
\* stands in the order exactly once.
C30_CyclesPerOccurrence ==
  (Executor /\ sources_order.given) =>
    /\ result = "complete" =>
         \A pr \in Pairs : CyclesFor(pr[1], pr[2]) = ExpectedCycles(pr[2])
    /\ cycles # << >> =>
         \E i \in 1..Len(plan) :
           /\ Cur.row = plan[i].row /\ Cur.col = plan[i].col
           /\ Cur.v = Get(plan[i].volumes_uL, Cur.lab, 0) /\ Cur.v > 0
           /\ CyclesFor(i, Cur.lab) <= ExpectedCycles(Cur.lab)
    /\ (result = "complete" /\ \A pr \in Pairs : CyclesFor(pr[1], pr[2]) = 1) =>
         \A l \in NeededLabels : l \in reservoirs /\ Occurrences(l) = 1

\* A completed run whose order names A twice and never B: a well has been dosed
\* twice with A, and a well that needs B not at all with B.
C30_Witness ==
  /\ Executor /\ sources_order.given /\ result = "complete"
  /\ \E pr \in Pairs : CyclesFor(pr[1], pr[2]) = 2
  /\ \E pr \in Pairs : pr[2] \in reservoirs /\ CyclesFor(pr[1], pr[2]) = 0

----------------------------------------------------------------------------
(* C31 *)

RECURSIVE Concat(_)
Concat(ss) == IF ss = << >> THEN << >> ELSE Head(ss) \o Concat(Tail(ss))

\* run_dosing lines 193-201: the (fluid, well) cycles its two loops go through,
\* fluids in the order of by_fluid.items(), wells in the order of each list.
run_dosing_cycles(p) ==
  LET g == group_plan_by_fluid(p)
  IN Concat([i \in 1..Len(g) |->
               [j \in 1..Len(g[i].wells) |->
                  Cycle(g[i].lab, g[i].wells[j].row, g[i].wells[j].col,
                        g[i].wells[j].volume_uL)]])

\* DosingExecutor.run lines 94-118 without sources_order: the cycles its two
\* loops go through, labels in inferred order, those without a reservoir or
\* without wells skipped.
executor_run_cycles(p, res) ==
  LET entries == parse_plan(p)
      ord == infer_sources_order(entries)
      by_src == group_wells_by_source(entries)
      WellsOf(l) == IF l \in res /\ HasKey(by_src, l) THEN Lookup(by_src, l) ELSE << >>
  IN Concat([i \in 1..Len(ord) |->
               [j \in 1..Len(WellsOf(ord[i])) |->
                  Cycle(ord[i], WellsOf(ord[i])[j].row, WellsOf(ord[i])[j].col,
                        Get(WellsOf(ord[i])[j].volumes_uL, ord[i], 0))]])

\* The cycles of this run in which the pump was asked to withdraw and then to
\* infuse, in order.
PumpCycles ==
  LET ks == SelectSeq([k \in 1..Len(cycles) |-> k],
                      LAMBDA k : WithdrawCalled(k) /\ InfuseCalled(k))
  IN [i \in 1..Len(ks) |-> cycles[ks[i]]]

\* A run of either orchestrator, in default order, on a plan whose fluids all have
\* reservoirs, that has ended without a failure of the port or of a driver.
EndedUndisturbed ==
  /\ Terminated /\ ~sources_order.given
  /\ NeededLabels \subseteq reservoirs
  /\ result \notin {"SerialException", "DriverError"}

\* C31 as stated: on every plan whose fluids all have reservoirs, run_dosing and
\* DosingExecutor.run in default order issue the same sequence of (fluid, well,
\* withdraw-then-infuse) cycles: the pump cycles of a run of the one are the
\* cycles the loops of the other go through on the same plan.
C31_AsStated ==
  EndedUndisturbed =>
    PumpCycles = (IF RunDosing THEN executor_run_cycles(plan, reservoirs)
                  ELSE run_dosing_cycles(plan))

----------------------------------------------------------------------------
(* C32 *)

Planner == variant = "planner"
\* The total volume the planner holds for its i-th well.
WellTotal(i) == float_sum(setup.wells[i].volumes)
\* Some well of the planner exceeds the current maximum per-well volume.
SomeWellExceeds == \E i \in 1..Len(setup.wells) : float_gt(WellTotal(i), setup.max_vol)
\* The step is a Begin Dosing, and it hands a plan to the backend.
BeginDosingStep == Len(calls') = Len(calls) + 1 /\ LastCall'[1] = "begin_dosing"
HandsOver == LastCall'[2] = "send_to_backend"

\* Begin Dosing has just handed a plan over: every well's total is at most the
\* maximum of that moment.
C32_WithinMaxWhenSent ==
  (Planner /\ pc = "built") =>
    \A i \in 1..Len(setup.wells) : float_le(WellTotal(i), setup.max_vol)

\* A Begin Dosing with a well above the maximum does not call send_to_backend, and
\* no Begin Dosing changes the wells, the sources, the plate or the maximum.
C32_RefusedUnchanged ==
  (Planner /\ BeginDosingStep) =>
    /\ SomeWellExceeds => ~HandsOver /\ plan' = plan
    /\ setup' = setup

\* C32 as stated: Begin Dosing hands a plan to the backend only if at that moment
\* every well's total volume is at most the current maximum; after any edits and
\* changes of the maximum, with a well above it send_to_backend is not called and
\* the model is left unchanged.
C32_AsStated == [](C32_WithinMaxWhenSent) /\ [][C32_RefusedUnchanged]_vars

----------------------------------------------------------------------------
(* C33 *)

\* The keys of a volume map are exactly the labels of the model's sources, each
\* once, and every value is non-negative.
VolumesWellFormed(m) ==
  /\ Keys(m) = Range(setup.sources)
  /\ \A i, j \in 1..Len(m) : m[i].lab = m[j].lab => i = j
  /\ \A i \in 1..Len(m) : float_le(0, m[i].v)

\* The model holds exactly one well per (row, col) of the current plate, each
\* with a well-formed volume map.
C33_ModelWellFormed ==
  Planner =>
    /\ Len(setup.wells) = setup.plate.rows * setup.plate.cols
    /\ \A r \in 0..(setup.plate.rows - 1), c \in 0..(setup.plate.cols - 1) :
         Cardinality(WellsAt(r, c)) = 1
    /\ \A i \in 1..Len(setup.wells) : VolumesWellFormed(setup.wells[i].volumes)

SetSourcesStep == Len(calls') = Len(calls) + 1 /\ LastCall'[1] = "set_sources"
SetPlateStep == Len(calls') = Len(calls) + 1 /\ LastCall'[1] = "on_plate_changed"

\* set_sources keeps, in every well, the volume of each label that is a source
\* before and after; set_plate leaves every volume at zero.
C33_SourcesKeptPlateReset ==
  Planner =>
    /\ SetSourcesStep =>
         /\ Len(setup.wells') = Len(setup.wells)
         /\ \A i \in 1..Len(setup.wells) :
              \A l \in Keys(setup.wells[i].volumes) \cap Range(setup.sources') :
                Get(setup.wells'[i].volumes, l, NaN) = Get(setup.wells[i].volumes, l, NaN)
    /\ SetPlateStep =>
         \A i \in 1..Len(setup.wells') :
           \A k \in 1..Len(setup.wells'[i].volumes) : setup.wells'[i].volumes[k].v = 0

\* C33 as stated: after any sequence of set_plate, set_sources and accepted well
\* edits the model holds exactly one well per (row, col) of the current plate,
\* every volume map has exactly the current source labels as keys with
\* non-negative values; set_sources keeps the volume of every label present
\* before and after, and set_plate resets every volume to zero.
C33_AsStated == [](C33_ModelWellFormed) /\ [][C33_SourcesKeptPlateReset]_vars


====
